---------------------------- MODULE Spec2Model ----------------------------
(***************************************************************************)
(* Composition-based clustering of municipios (cluster_municipios.py).     *)
(*                                                                         *)
(* Numbers.  The program computes in binary floating point.  Here a real   *)
(* x is the integer floor(x * Scale): products, quotients, square roots    *)
(* and logarithms are rounded to that resolution at every operation, as a  *)
(* float operation rounds to its own.  Every intermediate value stays      *)
(* below 2^31.  The resolution is coarser than a float's: two centers of   *)
(* the same direction reached by different computations (the mean of a     *)
(* zero vector and v, and v itself) are equidistant in floats and can      *)
(* differ in the last digit here, which decides the argmin of such a tie.  *)
(*                                                                         *)
(* Random numbers.  kmeans seeds the process-wide generator with 0 and     *)
(* draws from it.  The generator is MT19937; MT lists the top 8 bits of    *)
(* its first 32-bit outputs after seed(0), and the variable rng is the     *)
(* number of outputs consumed since the last seeding.  sample and choice   *)
(* are CPython's: both draw through _randbelow (rejection sampling on      *)
(* getrandbits(n.bit_length())).                                           *)
(***************************************************************************)
EXTENDS Integers, Sequences, FiniteSets

VARIABLES
    pc,               \* position of the single thread of control
    caller,           \* who called kmeans: "kmeans" (direct) or "assign_clusters"
    rng,              \* process-wide generator: outputs consumed since seeding
    rng_at_call,      \* history: rng when kmeans was entered
    \* ---- kmeans frame
    vectors, k_arg, k, max_iter,
    centers, labels, new_labels,
    round,            \* iterations of the for loop started so far
    updated,          \* history: the latest round ran its update step
    emptyRun,         \* history: per cluster, consecutive latest assignment
                      \* steps (capped at 2) that left it empty
    result,           \* value returned by kmeans
    \* ---- assign_clusters frame
    municipios, taxonomy, level_key, cluster_count, min_species, shrink_strength,
    feature_rows, level_names, weighted_rows, row_totals, display_names,
    eligible_indices,
    out_labels, normalized, signatures, summary,
    \* ---- a direct call of top_signature: its arguments and returned value
    top_sig,
    \* ---- worker threads that each run kmeans, sharing rng
    threads,
    \* ---- a direct call of one of the numeric helpers: function, arguments
    \* and returned value
    direct,
    \* ---- main: the rows built for the CSV export and the file written
    csv,
    \* ---- analyze_municipios.py: one data-acquisition run (its flags, the
    \* cache files, its locals and position) and one call of save_cache
    acq, sc

kmVars == <<vectors, k_arg, k, max_iter, centers, labels, new_labels, round,
            updated, emptyRun, result>>
acArgs == <<municipios, taxonomy, level_key, cluster_count, min_species,
            shrink_strength>>
acLocals == <<feature_rows, level_names, weighted_rows, row_totals,
              display_names, eligible_indices>>
acOut == <<out_labels, normalized, signatures, summary>>
sideVars == <<top_sig, threads, direct, csv, acq, sc>>
vars == <<pc, caller, rng, rng_at_call, kmVars, acArgs, acLocals, acOut,
          sideVars>>

-----------------------------------------------------------------------------
(* Bounds of the model *)

MaxVectors == 3
MaxK == 3
MaxRegions == 3
MaxOtherDraws == 2

-----------------------------------------------------------------------------
(* Fixed-point arithmetic *)

Scale == 10 ^ 4

FMul(x, y) == (x * y) \div Scale

FDiv(x, y) == (x * Scale) \div y

RECURSIVE ISqrtSearch(_, _, _)
ISqrtSearch(n, lo, hi) ==
    IF lo >= hi THEN lo
    ELSE LET mid == (lo + hi + 1) \div 2
         IN  IF mid * mid <= n THEN ISqrtSearch(n, mid, hi)
                               ELSE ISqrtSearch(n, lo, mid - 1)

\* floor of the square root of n, 0 <= n < 2^31
ISqrt(n) == ISqrtSearch(n, 0, 46340)

FSqrt(x) == ISqrt(x * Scale)

\* ln(n) * Scale for n = 1, 2, ...
LnTable == <<0, 6931, 10986, 13863, 16094, 17918, 19459, 20794, 21972>>

\* math.log(p / q) for positive integers p, q
FLogRatio(p, q) == LnTable[p] - LnTable[q]

RECURSIVE SumSeq(_)
SumSeq(s) == IF s = <<>> THEN 0 ELSE s[1] + SumSeq(Tail(s))

Min(a, b) == IF a <= b THEN a ELSE b

Zeros(n) == [i \in 1..n |-> 0]

\* a Python list: the sequence f with every element computed, once
List(f) == f \o <<>>

-----------------------------------------------------------------------------
(* The random module *)

MT == <<
    216, 98, 194, 227, 107, 10, 66, 247, 130, 124, 103, 235, 200, 212, 77, 247, 122, 91, 149, 228,
    232, 55, 129, 35, 72, 35, 193, 24, 158, 204, 64, 252, 232, 136, 251, 180, 207, 154, 230, 37,
    79, 25, 186, 18, 230, 217, 175, 84, 120, 143, 25, 90, 111, 80, 156, 163, 233, 52, 247, 141,
    122, 113, 221, 133, 66, 15, 206, 235, 140, 234, 3, 23, 184, 215, 102, 181, 211, 200, 171, 160,
    0, 156, 126, 211, 222, 85, 62, 186, 83, 180, 222, 16, 48, 234, 145, 56, 61, 205, 247, 36,
    205, 139, 114, 23, 20, 254, 81, 224, 130, 255, 238, 125, 27, 77, 141, 74, 180, 31, 140, 85,
    208, 236, 138, 52, 246, 204, 154, 140, 150, 73, 113, 23, 152, 204, 98, 81, 147, 61, 74, 47,
    48, 210, 47, 8, 156, 251, 168, 66, 121, 17, 22, 173, 193, 33, 224, 38, 236, 9, 215, 20,
    229, 179, 236, 212, 138, 174, 100, 214, 180, 134, 70, 133, 207, 60, 217, 55, 229, 173, 150, 211,
    243, 107, 148, 70, 115, 126, 169, 164, 255, 179, 234, 251, 203, 91, 21, 83, 156, 29, 124, 150,
    161, 85, 216, 48, 62, 4, 187, 69, 29, 180, 56, 95, 203, 43, 85, 109, 208, 15, 25, 200,
    37, 218, 178, 56, 11, 209, 146, 162, 232, 239, 136, 154, 174, 18, 6, 31, 162, 48, 155, 212,
    147, 30, 100, 23, 94, 213, 251, 29, 9, 155, 5, 49, 246, 248, 47, 183, 31, 122, 53, 186,
    204, 15, 239, 173, 5, 139, 108, 158, 25, 213, 66, 17, 56, 18, 165, 77, 89, 111, 46, 15,
    128, 119, 10, 152, 25, 179, 252, 100, 51, 66, 91, 231, 187, 120, 214, 230, 235, 145, 43, 178,
    172, 52, 247, 196, 14, 201, 173, 40, 216, 41, 87, 135, 64, 30, 152, 235, 113, 170, 44, 3,
    120, 174, 104, 230, 145, 223, 130, 234, 79, 166, 91, 99, 214, 168, 64, 39, 143, 176, 3, 117,
    189, 20, 85, 189, 11, 139, 71, 34, 61, 195, 244, 123, 90, 156, 73, 172, 91, 151, 242, 228,
    162, 218, 158, 33, 183, 79, 99, 191, 106, 212, 166, 20, 0, 152, 49, 178, 85, 40, 61, 57,
    163, 114, 96, 181, 224, 172, 145, 223, 106, 8, 102, 223, 179, 145, 107, 197, 169, 181, 11, 42 >>

\* n.bit_length() for 0 <= n < 256
BitLength(n) == Cardinality({b \in 0..7 : 2 ^ b <= n})

\* getrandbits(bits) on the output at position pos (0-based), bits <= 8
GetRandBits(bits, pos) == MT[pos + 1] \div (2 ^ (8 - bits))

\* _randbelow(n), n > 0: the value drawn and the generator afterwards
RECURSIVE RandBelow(_, _)
RandBelow(n, pos) ==
    LET r == GetRandBits(BitLength(n), pos)
    IN  IF r < n THEN [val |-> r, rng |-> pos + 1]
                 ELSE RandBelow(n, pos + 1)

RECURSIVE SampleLoop(_, _, _, _, _, _)
SampleLoop(i, kk, n, pool, res, pos) ==
    IF i = kk THEN [val |-> res, rng |-> pos]
    ELSE LET d == RandBelow(n - i, pos)
         IN  SampleLoop(i + 1, kk, n,
                        [pool EXCEPT ![d.val + 1] = pool[n - i]],
                        Append(res, pool[d.val + 1]), d.rng)

\* random.sample(range(n), kk), 0 <= kk <= n: indices are 0-based
Sample(n, kk, pos) == SampleLoop(0, kk, n, [p \in 1..n |-> p - 1], <<>>, pos)

\* random.choice(seq), seq non-empty
Choice(seq, pos) ==
    LET d == RandBelow(Len(seq), pos)
    IN  [val |-> seq[d.val + 1], rng |-> d.rng]

\* variant: the generator is left where it was (no reseeding)
Seed0_NoReseed(pos) == pos

\* random.seed(0): the generator restarts at the head of the stream
Seed0(pos) == 0

-----------------------------------------------------------------------------
(* Vectors *)

SumSquares(row) == SumSeq(List([i \in 1..Len(row) |-> FMul(row[i], row[i])]))

UnitVector(row) ==
    LET magnitude == FSqrt(SumSquares(row))
    IN  IF magnitude <= 0 THEN Zeros(Len(row))
        ELSE List([i \in 1..Len(row) |-> FDiv(row[i], magnitude)])

\* variant: distance 0.0 when a magnitude is zero
CosineDistance_ZeroWhenDegenerate(a, b) ==
    LET n == Min(Len(a), Len(b))
        dot == SumSeq(List([i \in 1..n |-> FMul(a[i], b[i])]))
        mag_a == FSqrt(SumSquares(a))
        mag_b == FSqrt(SumSquares(b))
    IN  IF mag_a = 0 \/ mag_b = 0 THEN 0
        ELSE Scale - FDiv(dot, FMul(mag_a, mag_b))

CosineDistance(a, b) ==
    LET n == Min(Len(a), Len(b))
        dot == SumSeq(List([i \in 1..n |-> FMul(a[i], b[i])]))
        mag_a == FSqrt(SumSquares(a))
        mag_b == FSqrt(SumSquares(b))
    IN  IF mag_a = 0 \/ mag_b = 0 THEN Scale
        ELSE Scale - FDiv(dot, FMul(mag_a, mag_b))

-----------------------------------------------------------------------------
(* kmeans, step by step *)

\* variant: among equal minima the last index
ArgMin_LastMinimal(distances, kk) ==
    CHOOSE i \in 0..(kk - 1) :
        /\ \A j \in 0..(kk - 1) : distances[i + 1] <= distances[j + 1]
        /\ \A j \in (i + 1)..(kk - 1) : distances[j + 1] > distances[i + 1]

\* variant: the minimal position counted from one
ArgMin_OneBased(distances, kk) ==
    CHOOSE i \in 1..kk :
        /\ \A j \in 1..kk : distances[i] <= distances[j]
        /\ \A j \in 1..(i - 1) : distances[j] > distances[i]

\* min(range(kk), key=lambda index: distances[index]): first minimal index
ArgMin(distances, kk) ==
    CHOOSE i \in 0..(kk - 1) :
        /\ \A j \in 0..(kk - 1) : distances[i + 1] <= distances[j + 1]
        /\ \A j \in 0..(i - 1) : distances[j + 1] > distances[i + 1]

\* one assignment step: the cluster index of every vector
AssignLabels(vs, cs, kk) ==
    List([v \in 1..Len(vs) |->
        ArgMin(List([c \in 1..kk |-> CosineDistance(vs[v], cs[c])]), kk)])

\* clusters[idx]: the vectors assigned to idx, in input order
ClusterOf(vs, lbls, idx) ==
    LET Pick(i) == lbls[i] = idx
        RECURSIVE Build(_)
        Build(i) == IF i > Len(vs) THEN <<>>
                    ELSE IF Pick(i) THEN <<vs[i]>> \o Build(i + 1)
                    ELSE Build(i + 1)
    IN  Build(1)

\* [sum(values) / len(cluster) for values in zip(*cluster)], cluster non-empty
Averaged(cluster) ==
    List([d \in 1..Len(cluster[1]) |->
        SumSeq(List([m \in 1..Len(cluster) |-> cluster[m][d]])) \div Len(cluster)])

\* the new center of an empty cluster: a random input vector, unit-normalized
Reseed(vs, pos) ==
    LET c == Choice(vs, pos)
    IN  [center |-> UnitVector(c.val), rng |-> c.rng]

\* the update step, for idx in range(kk): the centers and generator afterwards
RECURSIVE UpdateLoop(_, _, _, _, _, _)
UpdateLoop(idx, kk, vs, lbls, cs, pos) ==
    IF idx = kk THEN [centers |-> cs, rng |-> pos]
    ELSE LET cluster == ClusterOf(vs, lbls, idx)
         IN  IF cluster = <<>>
             THEN LET r == Reseed(vs, pos)
                  IN  UpdateLoop(idx + 1, kk, vs, lbls,
                                 [cs EXCEPT ![idx + 1] = r.center], r.rng)
             ELSE UpdateLoop(idx + 1, kk, vs, lbls,
                             [cs EXCEPT ![idx + 1] = UnitVector(Averaged(cluster))],
                             pos)

\* variant: k clamped into 1..len(vectors)
EffectiveK_AtLeastOne(kk, vs) ==
    IF Min(kk, Len(vs)) < 1 THEN 1 ELSE Min(kk, Len(vs))

\* k = min(k, len(vectors))
EffectiveK(kk, vs) == Min(kk, Len(vs))

\* variant: the initial centers drawn with replacement
InitialCenters_WithReplacement(vs, kk, pos) ==
    LET RECURSIVE Draw(_, _)
        Draw(c, p) ==
            IF c = kk THEN [val |-> <<>>, rng |-> p]
            ELSE LET d == RandBelow(Len(vs), p)
                     r == Draw(c + 1, d.rng)
                 IN  [val |-> <<d.val>> \o r.val, rng |-> r.rng]
        s == Draw(0, Seed0(pos))
    IN  [centers |-> List([c \in 1..kk |-> UnitVector(vs[s.val[c] + 1])]),
         rng |-> s.rng]

\* random.seed(0); centers = [unit_vector(vectors[idx]) for idx in sample(...)]
InitialCenters(vs, kk, pos) ==
    LET s == Sample(Len(vs), kk, Seed0(pos))
    IN  [centers |-> List([c \in 1..kk |-> UnitVector(vs[s.val[c] + 1])]),
         rng |-> s.rng]

\* the clusters of 0..kk-1 that hold no vector under lbls
EmptyClusters(lbls, kk) ==
    {c \in 0..(kk - 1) : \A i \in 1..Len(lbls) : lbls[i] # c}

-----------------------------------------------------------------------------
(* The pipeline of assign_clusters *)

None == -1

\* Every string a feature value can take, in the order sorted() gives them
LexOrder == <<"Passeriformes", "Picidae", "Piciformes", "Thraupidae",
              "Tyrannidae", "sp1", "sp2", "sp3", "sp4", "sp5", "sp6",
              "unknown">>

\* sorted(values) for a set of strings
Sorted(values) == SelectSeq(LexOrder, LAMBDA x : x \in values)

\* variant: a code the taxonomy does not know stands for itself at every level
FeatureValue_CodeWhenMissing(code, tax, lk) ==
    IF lk = "species" THEN code
    ELSE IF code \in DOMAIN tax THEN tax[code][lk] ELSE code

\* the feature a species code maps to at level_key
FeatureValue(code, tax, lk) ==
    IF lk = "species" THEN code
    ELSE IF code \in DOMAIN tax THEN tax[code][lk] ELSE "unknown"

\* variant: a repeated species code counted once
FeatureCount_Distinct(muni, tax, lk, name) ==
    Cardinality({muni.species[i] : i \in
                    {x \in 1..Len(muni.species) :
                        FeatureValue(muni.species[x], tax, lk) = name}})

\* counts.get(name, 0) for the Counter of one municipio
FeatureCount(muni, tax, lk, name) ==
    Cardinality({i \in 1..Len(muni.species) :
                    FeatureValue(muni.species[i], tax, lk) = name})

BuildFeatureMatrix(munis, tax, lk) ==
    LET level_values ==
            UNION {{FeatureValue(munis[m].species[i], tax, lk) :
                        i \in 1..Len(munis[m].species)} : m \in 1..Len(munis)}
        names == Sorted(level_values)
    IN  [matrix |-> List([m \in 1..Len(munis) |->
                        List([j \in 1..Len(names) |->
                            FeatureCount(munis[m], tax, lk, names[j]) * Scale])]),
         level_names |-> names]

\* variant: rows divided by their largest entry
NormalizeRows_ByMaximum(rows) ==
    List([r \in 1..Len(rows) |->
        LET total == SumSeq(rows[r])
            largest == CHOOSE x \in {rows[r][j] : j \in 1..Len(rows[r])} :
                           \A j \in 1..Len(rows[r]) : rows[r][j] <= x
        IN  IF total <= 0 THEN Zeros(Len(rows[r]))
            ELSE List([j \in 1..Len(rows[r]) |-> FDiv(rows[r][j], largest)])])

NormalizeRows(rows) ==
    List([r \in 1..Len(rows) |->
        LET total == SumSeq(rows[r])
        IN  IF total <= 0 THEN Zeros(Len(rows[r]))
            ELSE List([j \in 1..Len(rows[r]) |-> FDiv(rows[r][j], total)])])

ComputeGlobalDistribution(rows) ==
    IF rows = <<>> THEN <<>>
    ELSE LET totals == List([j \in 1..Len(rows[1]) |->
                           SumSeq(List([r \in 1..Len(rows) |-> rows[r][j]]))])
             grand_total == SumSeq(totals)
         IN  IF grand_total <= 0 THEN Zeros(Len(totals))
             ELSE List([j \in 1..Len(totals) |-> FDiv(totals[j], grand_total)])

ComputeIdf(rows) ==
    IF rows = <<>> THEN <<>>
    ELSE LET doc_count == Len(rows)
             df == List([j \in 1..Len(rows[1]) |->
                       Cardinality({r \in 1..Len(rows) : rows[r][j] > 0})])
         IN  List([j \in 1..Len(df) |->
                    FLogRatio(1 + doc_count, 1 + df[j]) + Scale])

\* variant: the weight of the region's own row taken as s / (t + s)
ApplyTfidfShrinkage_WeightSwapped(rows, shrink) ==
    LET totals == List([r \in 1..Len(rows) |-> SumSeq(rows[r])])
        tf_rows == NormalizeRows(rows)
        global_dist == ComputeGlobalDistribution(rows)
        idf == ComputeIdf(rows)
        Shrunk(r) ==
            IF shrink > 0 /\ global_dist # <<>>
            THEN LET weight == FDiv(shrink, totals[r] + shrink)
                 IN  List([j \in 1..Len(tf_rows[r]) |->
                        FMul(weight, tf_rows[r][j])
                        + FMul(Scale - weight, global_dist[j])])
            ELSE tf_rows[r]
    IN  [weighted_rows |->
            List([r \in 1..Len(rows) |->
                IF totals[r] <= 0 THEN Zeros(Len(tf_rows[r]))
                ELSE LET tf_row == Shrunk(r)
                     IN  List([j \in 1..Len(tf_row) |->
                                FMul(tf_row[j], idf[j])])]),
         row_totals |-> totals]

\* variant: a row of total 0 is weighted like any other row
ApplyTfidfShrinkage_ZeroRowShrunk(rows, shrink) ==
    LET totals == List([r \in 1..Len(rows) |-> SumSeq(rows[r])])
        tf_rows == NormalizeRows(rows)
        global_dist == ComputeGlobalDistribution(rows)
        idf == ComputeIdf(rows)
        Shrunk(r) ==
            IF shrink > 0 /\ global_dist # <<>>
            THEN LET weight == FDiv(totals[r], totals[r] + shrink)
                 IN  List([j \in 1..Len(tf_rows[r]) |->
                        FMul(weight, tf_rows[r][j])
                        + FMul(Scale - weight, global_dist[j])])
            ELSE tf_rows[r]
    IN  [weighted_rows |->
            List([r \in 1..Len(rows) |->
                LET tf_row == Shrunk(r)
                IN  List([j \in 1..Len(tf_row) |-> FMul(tf_row[j], idf[j])])]),
         row_totals |-> totals]

ApplyTfidfShrinkage(rows, shrink) ==
    LET totals == List([r \in 1..Len(rows) |-> SumSeq(rows[r])])
        tf_rows == NormalizeRows(rows)
        global_dist == ComputeGlobalDistribution(rows)
        idf == ComputeIdf(rows)
        Shrunk(r) ==
            IF shrink > 0 /\ global_dist # <<>>
            THEN LET weight == FDiv(totals[r], totals[r] + shrink)
                 IN  List([j \in 1..Len(tf_rows[r]) |->
                        FMul(weight, tf_rows[r][j])
                        + FMul(Scale - weight, global_dist[j])])
            ELSE tf_rows[r]
    IN  [weighted_rows |->
            List([r \in 1..Len(rows) |->
                IF totals[r] <= 0 THEN Zeros(Len(tf_rows[r]))
                ELSE LET tf_row == Shrunk(r)
                     IN  List([j \in 1..Len(tf_row) |->
                                FMul(tf_row[j], idf[j])])]),
         row_totals |-> totals]

\* variant: positions of equal value in reverse order
RECURSIVE SortedDescFrom_TiesLast(_, _)
SortedDescFrom_TiesLast(vals, left) ==
    IF left = {} THEN <<>>
    ELSE LET best == CHOOSE i \in left :
                        \A j \in left : \/ vals[i] > vals[j]
                                        \/ (vals[i] = vals[j] /\ i >= j)
         IN  <<best>> \o SortedDescFrom_TiesLast(vals, left \ {best})

\* sorted(range(n), key=lambda i: vals[i], reverse=True): a stable sort, so
\* positions of equal value keep their order (positions here are 1-based)
RECURSIVE SortedDescFrom(_, _)
SortedDescFrom(vals, left) ==
    IF left = {} THEN <<>>
    ELSE LET best == CHOOSE i \in left :
                        \A j \in left : \/ vals[i] > vals[j]
                                        \/ (vals[i] = vals[j] /\ i <= j)
         IN  <<best>> \o SortedDescFrom(vals, left \ {best})

SortedDesc(vals, n) == SortedDescFrom(vals, 1..n)

\* ordered[:limit]
Prefix(ordered, limit) == SubSeq(ordered, 1, Min(limit, Len(ordered)))

SIGNATURE_LIMIT == 3

\* variant: zero-valued positions are kept
TopSignature_NonNegative(vector, names, limit) ==
    LET ordered == SortedDesc(vector, Len(names))
        kept == SelectSeq(Prefix(ordered, limit), LAMBDA idx : vector[idx] >= 0)
    IN  List([i \in 1..Len(kept) |-> names[kept[i]]])

\* [display_names[idx] for idx in ordered[:limit] if vector[idx] > 0]
TopSignature(vector, names, limit) ==
    LET ordered == SortedDesc(vector, Len(names))
        kept == SelectSeq(Prefix(ordered, limit), LAMBDA idx : vector[idx] > 0)
    IN  List([i \in 1..Len(kept) |-> names[kept[i]]])

BuildDisplayNames(lk, names, tax) ==
    IF lk # "species" THEN names
    ELSE List([i \in 1..Len(names) |->
            LET code == names[i]
            IN  IF code \in DOMAIN tax /\ tax[code].common # ""
                    THEN tax[code].common
                ELSE IF code \in DOMAIN tax /\ tax[code].scientific # ""
                    THEN tax[code].scientific
                ELSE code])

\* [idx for idx, x in enumerate(...) if test]: the positions (1-based) whose
\* flag is set, in increasing order
IndicesWhere(flags) ==
    LET RECURSIVE Build(_)
        Build(i) == IF i > Len(flags) THEN <<>>
                    ELSE IF flags[i] THEN <<i>> \o Build(i + 1)
                    ELSE Build(i + 1)
    IN  Build(1)

\* the mean of the rows, column by column, starting from zeros
ColumnMeans(cluster_rows, width) ==
    IF cluster_rows = <<>> THEN Zeros(width)
    ELSE List([j \in 1..width |->
            SumSeq(List([r \in 1..Len(cluster_rows) |-> cluster_rows[r][j]]))
                \div Len(cluster_rows)])

\* variant: the absent label is summarized as a cluster
SummarizeClusters_WithNone(munis, lbls, norm, names) ==
    [cluster \in {lbls[i] : i \in 1..Len(lbls)} |->
        LET indices == IndicesWhere(List([i \in 1..Len(lbls) |-> lbls[i] = cluster]))
            cluster_rows == List([r \in 1..Len(indices) |-> norm[indices[r]]])
            means == ColumnMeans(cluster_rows, Len(names))
            ordered == SortedDesc(means, Len(names))
            kept == SelectSeq(Prefix(ordered, 3), LAMBDA idx : means[idx] > 0)
        IN  [municipios |-> List([r \in 1..Len(indices) |->
                                    munis[indices[r]].name]),
             signature |-> List([i \in 1..Len(kept) |-> names[kept[i]]]),
             size |-> Len(indices)]]

\* variant: the first three features are kept whatever their mean
SummarizeClusters_NoPositiveFilter(munis, lbls, norm, names) ==
    [cluster \in {lbls[i] : i \in 1..Len(lbls)} \ {None} |->
        LET indices == IndicesWhere(List([i \in 1..Len(lbls) |-> lbls[i] = cluster]))
            cluster_rows == List([r \in 1..Len(indices) |-> norm[indices[r]]])
            means == ColumnMeans(cluster_rows, Len(names))
            ordered == SortedDesc(means, Len(names))
            kept == Prefix(ordered, 3)
        IN  [municipios |-> List([r \in 1..Len(indices) |->
                                    munis[indices[r]].name]),
             signature |-> List([i \in 1..Len(kept) |-> names[kept[i]]]),
             size |-> Len(indices)]]

\* def summarize_clusters(municipios, labels, normalized, level_names)
SummarizeClusters(munis, lbls, norm, names) ==
    [cluster \in {lbls[i] : i \in 1..Len(lbls)} \ {None} |->
        LET indices == IndicesWhere(List([i \in 1..Len(lbls) |-> lbls[i] = cluster]))
            cluster_rows == List([r \in 1..Len(indices) |-> norm[indices[r]]])
            means == ColumnMeans(cluster_rows, Len(names))
            ordered == SortedDesc(means, Len(names))
            kept == SelectSeq(Prefix(ordered, 3), LAMBDA idx : means[idx] > 0)
        IN  [municipios |-> List([r \in 1..Len(indices) |->
                                    munis[indices[r]].name]),
             signature |-> List([i \in 1..Len(kept) |-> names[kept[i]]]),
             size |-> Len(indices)]]

\* variant: a strict threshold
EligibleIndices_Strict(totals, minsp) ==
    IndicesWhere(List([i \in 1..Len(totals) |-> totals[i] > minsp * Scale]))

\* variant: no threshold
EligibleIndices_All(totals, minsp) ==
    IndicesWhere(List([i \in 1..Len(totals) |-> TRUE]))

\* [idx for idx, total in enumerate(row_totals) if total >= min_species]
EligibleIndices(totals, minsp) ==
    IndicesWhere(List([i \in 1..Len(totals) |-> totals[i] >= minsp * Scale]))

\* variant: the j-th kmeans label given to the j-th region
MapLabelsBack_ByPosition(n, eligible, eligible_labels) ==
    List([i \in 1..n |->
        IF i <= Len(eligible_labels) THEN eligible_labels[i] ELSE None])

\* labels[idx] = label for idx, label in zip(eligible_indices, eligible_labels)
MapLabelsBack(n, eligible, eligible_labels) ==
    List([i \in 1..n |->
        IF \E j \in 1..Min(Len(eligible), Len(eligible_labels)) : eligible[j] = i
        THEN eligible_labels[CHOOSE j \in 1..Len(eligible) : eligible[j] = i]
        ELSE None])

\* variant: a signature for every region, labelled or not
RegionSignatures_NoSkip(lbls, norm, names) ==
    List([i \in 1..Len(norm) |-> TopSignature(norm[i], names, SIGNATURE_LIMIT)])

\* variant: a region's signature taken from the mean of its cluster
RegionSignatures_ClusterMean(lbls, norm, names) ==
    List([i \in 1..Len(norm) |->
        IF lbls[i] = None THEN <<>>
        ELSE LET indices == IndicesWhere(List([x \in 1..Len(lbls) |->
                                                 lbls[x] = lbls[i]]))
                 rows == List([r \in 1..Len(indices) |-> norm[indices[r]]])
             IN  TopSignature(ColumnMeans(rows, Len(names)), names,
                              SIGNATURE_LIMIT)])

\* the per-region signatures
RegionSignatures(lbls, norm, names) ==
    List([i \in 1..Len(norm) |->
        IF lbls[i] = None THEN <<>>
        ELSE TopSignature(norm[i], names, SIGNATURE_LIMIT)])

-----------------------------------------------------------------------------
(* Inputs *)

DEFAULT_MIN_SPECIES == 30
DEFAULT_SHRINK == 20
MAX_ITER_DEFAULT == 50

\* vectors given to kmeans directly: two components, each 0.0 or 1.0
Components == {0, Scale}
VectorSet == {<<x, y>> : x \in Components, y \in Components}
VectorLists == UNION {[1..n -> VectorSet] : n \in 0..MaxVectors}
KArgs == (-1)..MaxK
MaxIterArgs == {1, 2, MAX_ITER_DEFAULT}

\* the taxonomy load_taxonomy builds: sp2 has no common name, sp3 no name at
\* all, sp4 is not in the taxonomy
Taxonomy1 ==
    [code \in {"sp1", "sp2", "sp3"} |->
        CASE code = "sp1" -> [order |-> "Passeriformes", family |-> "Thraupidae",
                              common |-> "Tie-sangue",
                              scientific |-> "Ramphocelus bresilia"]
          [] code = "sp2" -> [order |-> "Passeriformes", family |-> "Tyrannidae",
                              common |-> "",
                              scientific |-> "Pitangus sulphuratus"]
          [] code = "sp3" -> [order |-> "Piciformes", family |-> "Picidae",
                              common |-> "", scientific |-> ""]]

SpeciesLists == {<<>>, <<"sp1">>, <<"sp2", "sp3">>, <<"sp4", "sp4">>}

\* municipio names are unique: the i-th record is named after its position
MunicipioNames == <<"m1", "m2", "m3", "m4", "m5">>

MunicipioLists ==
    UNION {{[i \in 1..n |-> [name |-> MunicipioNames[i],
                             code |-> MunicipioNames[i],
                             species |-> sp[i]]] :
                sp \in [1..n -> SpeciesLists]} : n \in 0..MaxRegions}

LevelKeys == {"species", "family", "order"}
ClusterCounts == {0, 2, 8}
MinSpeciesArgs == {0, 2, DEFAULT_MIN_SPECIES}
ShrinkArgs == {0, DEFAULT_SHRINK}

\* arguments of a direct call of top_signature: any values, negative ones
\* included, one distinct name per position, any limit from 0 up
MaxFeatures == 3
MaxLimit == 4
SigValues == {-Scale, 0, Scale \div 2, Scale}
SigVectors == UNION {[1..n -> SigValues] : n \in 0..MaxFeatures}
FeatureNames == <<"f1", "f2", "f3", "f4", "f5", "f6">>
SigLimits == 0..MaxLimit

\* worker threads: each runs one kmeans call on MaxVectors vectors, each
\* vector [1.0, 0.0] or [0.0, 1.0], asking for 2..MaxK clusters
NumThreads == 2
ThreadVectors == {<<Scale, 0>>, <<0, Scale>>}
ThreadVectorLists == [1..MaxVectors -> ThreadVectors]
ThreadKArgs == 2..MaxK

-----------------------------------------------------------------------------
(* State machine *)

\* no call of kmeans or assign_clusters in progress, the generator as seeded
NoCall ==
    /\ pc = "idle"
    /\ caller = ""
    /\ rng = 0
    /\ rng_at_call = 0
    /\ vectors = <<>> /\ k_arg = 0 /\ k = 0 /\ max_iter = 0
    /\ centers = <<>> /\ labels = <<>> /\ new_labels = <<>>
    /\ round = 0 /\ updated = FALSE /\ emptyRun = <<>> /\ result = <<>>
    /\ municipios = <<>> /\ taxonomy = <<>> /\ level_key = ""
    /\ cluster_count = 0 /\ min_species = 0 /\ shrink_strength = 0
    /\ feature_rows = <<>>
    /\ level_names = <<>> /\ weighted_rows = <<>> /\ row_totals = <<>>
    /\ display_names = <<>> /\ eligible_indices = <<>>
    /\ out_labels = <<>> /\ normalized = <<>> /\ signatures = <<>>
    /\ summary = <<>>

\* no data-acquisition run and no call of save_cache
NoAcq == [pc |-> "none"]
NoSc == [pc |-> "none"]

\* main has built no rows and written no file
NoCsv == [written |-> FALSE, rows |-> <<>>, lines |-> <<>>]

\* no helper has been called directly
NoDirect == [fn |-> "", args |-> <<>>, ret |-> <<>>, raised |-> FALSE]

Init ==
    /\ NoCall
    /\ top_sig = <<>>
    /\ threads = <<>>
    /\ direct = NoDirect
    /\ csv = NoCsv
    /\ acq = NoAcq /\ sc = NoSc

\* variant: no initial labelling to compare the first assignment with
KmeansEnter_NoInitialLabels(vs, kk, mi, pos) ==
    IF vs = <<>>
    THEN [pc |-> "km_return", k |-> kk, centers |-> <<>>, labels |-> <<>>,
          rng |-> pos]
    ELSE LET ek == EffectiveK(kk, vs)
         IN  IF ek < 0
             THEN [pc |-> "error", k |-> ek, centers |-> <<>>, labels |-> <<>>,
                   rng |-> Seed0(pos)]
             ELSE LET c == InitialCenters(vs, ek, pos)
                  IN  [pc |-> IF mi > 0 THEN "km_assign" ELSE "km_return",
                       k |-> ek, centers |-> c.centers,
                       labels |-> [i \in 1..Len(vs) |-> None], rng |-> c.rng]

\* kmeans up to its loop: the empty-input return, the clamp of k, the seeding,
\* the sample of initial centers and the initial all-zero labels.  A negative
\* k makes random.sample raise.
KmeansEnter(vs, kk, mi, pos) ==
    IF vs = <<>>
    THEN [pc |-> "km_return", k |-> kk, centers |-> <<>>, labels |-> <<>>,
          rng |-> pos]
    ELSE LET ek == EffectiveK(kk, vs)
         IN  IF ek < 0
             THEN [pc |-> "error", k |-> ek, centers |-> <<>>, labels |-> <<>>,
                   rng |-> Seed0(pos)]
             ELSE LET c == InitialCenters(vs, ek, pos)
                  IN  [pc |-> IF mi > 0 THEN "km_assign" ELSE "km_return",
                       k |-> ek, centers |-> c.centers,
                       labels |-> Zeros(Len(vs)), rng |-> c.rng]

\* the loop of kmeans from round rnd on, as one computation: the labels
\* returned, or the error raised
RECURSIVE KMeansLoop(_, _, _, _, _, _, _)
KMeansLoop(vs, kk, mi, cs, lbls, rnd, pos) ==
    IF rnd >= mi THEN [raised |-> FALSE, labels |-> lbls]
    ELSE IF kk = 0 THEN [raised |-> TRUE, labels |-> <<>>]
    ELSE LET nl == AssignLabels(vs, cs, kk)
         IN  IF nl = lbls THEN [raised |-> FALSE, labels |-> lbls]
             ELSE LET u == UpdateLoop(0, kk, vs, nl, cs, pos)
                  IN  KMeansLoop(vs, kk, mi, u.centers, nl, rnd + 1, u.rng)

\* kmeans(vs, kk, mi) called with the generator at pos
KMeans(vs, kk, mi, pos) ==
    LET e == KmeansEnter(vs, kk, mi, pos)
    IN  IF e.pc = "error" THEN [raised |-> TRUE, labels |-> <<>>]
        ELSE IF e.pc = "km_return" THEN [raised |-> FALSE, labels |-> e.labels]
        ELSE KMeansLoop(vs, e.k, mi, e.centers, e.labels, 0, e.rng)

\* assign_clusters as one computation, called with the generator at pos: the
\* five values returned, or the error kmeans raised
AssignClusters(munis, tax, lk, cc, minsp, shrink, pos) ==
    LET fm == BuildFeatureMatrix(munis, tax, lk)
        w == ApplyTfidfShrinkage(fm.matrix, shrink)
        names == BuildDisplayNames(lk, fm.level_names, tax)
        eligible == EligibleIndices(w.row_totals, minsp)
        eligible_rows == List([j \in 1..Len(eligible) |->
                                 w.weighted_rows[eligible[j]]])
        km == IF eligible_rows # <<>>
              THEN KMeans(eligible_rows, cc, MAX_ITER_DEFAULT, pos)
              ELSE [raised |-> FALSE, labels |-> <<>>]
        lbls == MapLabelsBack(Len(munis), eligible, km.labels)
        norm == List([i \in 1..Len(w.weighted_rows) |->
                        UnitVector(w.weighted_rows[i])])
    IN  IF km.raised
        THEN [raised |-> TRUE, labels |-> <<>>, normalized |-> <<>>,
              level_names |-> <<>>, summary |-> <<>>, signatures |-> <<>>]
        ELSE [raised |-> FALSE, labels |-> lbls, normalized |-> norm,
              level_names |-> fm.level_names,
              summary |-> SummarizeClusters(munis, lbls, norm, names),
              signatures |-> RegionSignatures(lbls, norm, names)]

\* a caller invokes kmeans(vs, kk, mi)
CallKmeans(vs, kk, mi) ==
    /\ pc = "idle"
    /\ rng <= MaxOtherDraws
    /\ LET e == KmeansEnter(vs, kk, mi, rng)
       IN  /\ pc' = e.pc
           /\ k' = e.k
           /\ centers' = e.centers
           /\ labels' = e.labels
           /\ rng' = e.rng
           /\ emptyRun' = [c \in 0..(e.k - 1) |-> 0]
    /\ caller' = "kmeans"
    /\ rng_at_call' = rng
    /\ vectors' = vs /\ k_arg' = kk /\ max_iter' = mi
    /\ new_labels' = <<>> /\ round' = 0 /\ updated' = FALSE /\ result' = <<>>
    /\ UNCHANGED <<acArgs, acLocals, acOut, sideVars>>

\* one assignment step of the loop, with the convergence test that follows it.
\* With k = 0 there is no center and min() raises.
KmeansAssign ==
    /\ pc = "km_assign"
    /\ round' = round + 1
    /\ updated' = FALSE
    /\ IF k = 0
       THEN /\ pc' = "error"
            /\ UNCHANGED <<new_labels, labels, emptyRun>>
       ELSE LET nl == AssignLabels(vectors, centers, k)
            IN  /\ new_labels' = nl
                /\ emptyRun' = [c \in 0..(k - 1) |->
                                   IF c \in EmptyClusters(nl, k)
                                   THEN Min(emptyRun[c] + 1, 2) ELSE 0]
                /\ IF nl = labels
                   THEN pc' = "km_return" /\ UNCHANGED labels
                   ELSE pc' = "km_update" /\ labels' = nl
    /\ UNCHANGED <<caller, rng, rng_at_call, vectors, k_arg, k, max_iter,
                   centers, result, acArgs, acLocals, acOut, sideVars>>

\* variant of the update step that unit-normalizes the input vectors where they
\* are stored
KmeansUpdate_NormalizesInPlace ==
    /\ pc = "km_update"
    /\ LET u == UpdateLoop(0, k, vectors, labels, centers, rng)
       IN  centers' = u.centers /\ rng' = u.rng
    /\ vectors' = List([i \in 1..Len(vectors) |-> UnitVector(vectors[i])])
    /\ updated' = TRUE
    /\ pc' = IF round < max_iter THEN "km_assign" ELSE "km_return"
    /\ UNCHANGED <<caller, rng_at_call, k_arg, k, max_iter, labels,
                   new_labels, round, emptyRun, result, acArgs, acLocals, acOut,
                   sideVars>>

\* the update step of the loop: every center is recomputed, an empty
\* cluster's center is reseeded
KmeansUpdate ==
    /\ pc = "km_update"
    /\ LET u == UpdateLoop(0, k, vectors, labels, centers, rng)
       IN  centers' = u.centers /\ rng' = u.rng
    /\ updated' = TRUE
    /\ pc' = IF round < max_iter THEN "km_assign" ELSE "km_return"
    /\ UNCHANGED <<caller, rng_at_call, vectors, k_arg, k, max_iter, labels,
                   new_labels, round, emptyRun, result, acArgs, acLocals, acOut,
                   sideVars>>

\* return labels: to the direct caller, or into assign_clusters
KmeansReturn ==
    /\ pc = "km_return"
    /\ result' = labels
    /\ pc' = IF caller = "kmeans" THEN "done" ELSE "ac_finish"
    /\ UNCHANGED <<caller, rng, rng_at_call, vectors, k_arg, k, max_iter,
                   centers, labels, new_labels, round, updated, emptyRun,
                   acArgs, acLocals, acOut, sideVars>>

\* assign_clusters from its entry to the point where kmeans runs its loop (or
\* is skipped because no region is eligible)
CallAssignClusters(munis, tax, lk, cc, minsp, shrink) ==
    /\ pc = "idle"
    /\ rng <= MaxOtherDraws
    /\ LET fm == BuildFeatureMatrix(munis, tax, lk)
           w == ApplyTfidfShrinkage(fm.matrix, shrink)
           eligible == EligibleIndices(w.row_totals, minsp)
           eligible_rows == List([j \in 1..Len(eligible) |->
                                    w.weighted_rows[eligible[j]]])
       IN  /\ feature_rows' = fm.matrix
           /\ level_names' = fm.level_names
           /\ weighted_rows' = w.weighted_rows
           /\ row_totals' = w.row_totals
           /\ display_names' = BuildDisplayNames(lk, fm.level_names, tax)
           /\ eligible_indices' = eligible
           /\ IF eligible_rows # <<>>
              THEN LET e == KmeansEnter(eligible_rows, cc, MAX_ITER_DEFAULT, rng)
                   IN  /\ pc' = e.pc
                       /\ k' = e.k
                       /\ centers' = e.centers
                       /\ labels' = e.labels
                       /\ rng' = e.rng
                       /\ emptyRun' = [c \in 0..(e.k - 1) |-> 0]
                       /\ vectors' = eligible_rows
                       /\ k_arg' = cc
                       /\ max_iter' = MAX_ITER_DEFAULT
              ELSE /\ pc' = "ac_finish"
                   /\ UNCHANGED <<k, centers, labels, rng, emptyRun, vectors,
                                  k_arg, max_iter>>
    /\ caller' = "assign_clusters"
    /\ rng_at_call' = rng
    /\ municipios' = munis /\ taxonomy' = tax /\ level_key' = lk
    /\ cluster_count' = cc /\ min_species' = minsp /\ shrink_strength' = shrink
    /\ new_labels' = <<>> /\ round' = 0 /\ updated' = FALSE /\ result' = <<>>
    /\ UNCHANGED <<acOut, sideVars>>

\* the rest of assign_clusters: labels mapped back by original index, the
\* unit vectors, the per-region signatures and the cluster summaries
AssignClustersFinish ==
    /\ pc = "ac_finish"
    /\ LET lbls == MapLabelsBack(Len(municipios), eligible_indices, result)
           norm == List([i \in 1..Len(weighted_rows) |->
                            UnitVector(weighted_rows[i])])
       IN  /\ out_labels' = lbls
           /\ normalized' = norm
           /\ signatures' = RegionSignatures(lbls, norm, display_names)
           /\ summary' = SummarizeClusters(municipios, lbls, norm, display_names)
    /\ pc' = "done"
    /\ UNCHANGED <<caller, rng, rng_at_call, kmVars, acArgs, acLocals,
                   sideVars>>

\* the call is over (returned or raised); the process goes on and the frames
\* are gone.  The generator keeps its state.
Reset ==
    /\ pc \in {"done", "error"}
    /\ pc' = "idle"
    /\ caller' = ""
    /\ rng_at_call' = 0
    /\ vectors' = <<>> /\ k_arg' = 0 /\ k' = 0 /\ max_iter' = 0
    /\ centers' = <<>> /\ labels' = <<>> /\ new_labels' = <<>>
    /\ round' = 0 /\ updated' = FALSE /\ emptyRun' = <<>> /\ result' = <<>>
    /\ municipios' = <<>> /\ taxonomy' = <<>> /\ level_key' = ""
    /\ cluster_count' = 0 /\ min_species' = 0 /\ shrink_strength' = 0
    /\ feature_rows' = <<>>
    /\ level_names' = <<>> /\ weighted_rows' = <<>> /\ row_totals' = <<>>
    /\ display_names' = <<>> /\ eligible_indices' = <<>>
    /\ out_labels' = <<>> /\ normalized' = <<>> /\ signatures' = <<>>
    /\ summary' = <<>>
    /\ UNCHANGED <<rng, sideVars>>

\* other code of the process uses the generator between calls: it is left some
\* number of outputs past a seeding
OtherRandomUse ==
    /\ pc = "idle"
    /\ \E n \in 0..MaxOtherDraws : rng' = n
    /\ rng' # rng
    /\ UNCHANGED <<pc, caller, rng_at_call, kmVars, acArgs, acLocals, acOut,
                   sideVars>>

\* the calls are tried from the idle process only
Next ==
    \/ /\ pc = "idle"
       /\ \E vs \in VectorLists, kk \in KArgs, mi \in MaxIterArgs :
            CallKmeans(vs, kk, mi)
    \/ KmeansAssign
    \/ KmeansUpdate
    \/ KmeansReturn
    \/ /\ pc = "idle"
       /\ \E munis \in MunicipioLists, lk \in LevelKeys, cc \in ClusterCounts,
             minsp \in MinSpeciesArgs, shrink \in ShrinkArgs :
            CallAssignClusters(munis, Taxonomy1, lk, cc, minsp, shrink * Scale)
    \/ AssignClustersFinish
    \/ Reset
    \/ OtherRandomUse

Spec == Init /\ [][Next]_vars

-----------------------------------------------------------------------------
(* kmeans run by several threads of one process.  Each thread has its own    *)
(* frame; random is the module-level generator, the one rng of the process.  *)
(* A thread can be preempted between any two statements; the steps below     *)
(* are the statements (or groups of them) that touch the generator or the    *)
(* labels.                                                                   *)

ThreadInit ==
    /\ NoCall
    /\ top_sig = <<>>
    /\ direct = NoDirect
    /\ csv = NoCsv
    /\ acq = NoAcq /\ sc = NoSc
    /\ threads \in [1..NumThreads ->
                      {[pc |-> "start", vectors |-> vs, k_arg |-> kk, k |-> kk,
                        max_iter |-> MAX_ITER_DEFAULT, centers |-> <<>>,
                        labels |-> <<>>, round |-> 0, result |-> <<>>] :
                          vs \in ThreadVectorLists, kk \in ThreadKArgs}]

ThreadUnchanged ==
    UNCHANGED <<pc, caller, rng_at_call, kmVars, acArgs, acLocals, acOut,
                top_sig, direct, csv, acq, sc>>

\* k = min(k, len(vectors)); random.seed(0)
ThreadSeed(t) ==
    /\ threads[t].pc = "start"
    /\ rng' = Seed0(rng)
    /\ threads' = [threads EXCEPT
                      ![t].k = EffectiveK(threads[t].k_arg, threads[t].vectors),
                      ![t].pc = "sample"]
    /\ ThreadUnchanged

\* centers = [... for idx in random.sample(...)]; labels = [0] * len(vectors)
ThreadSample(t) ==
    /\ threads[t].pc = "sample"
    /\ LET f == threads[t]
           smp == Sample(Len(f.vectors), f.k, rng)
       IN  /\ rng' = smp.rng
           /\ threads' = [threads EXCEPT
                 ![t].centers = List([c \in 1..f.k |->
                                        UnitVector(f.vectors[smp.val[c] + 1])]),
                 ![t].labels = Zeros(Len(f.vectors)),
                 ![t].pc = "assign"]
    /\ ThreadUnchanged

\* one assignment step and the convergence test
ThreadAssign(t) ==
    /\ threads[t].pc = "assign"
    /\ LET f == threads[t]
           nl == AssignLabels(f.vectors, f.centers, f.k)
       IN  threads' = [threads EXCEPT
                 ![t].round = f.round + 1,
                 ![t].labels = nl,
                 ![t].pc = IF nl = f.labels THEN "return" ELSE "update"]
    /\ UNCHANGED rng
    /\ ThreadUnchanged

\* the update step, drawing from the shared generator for an empty cluster
ThreadUpdate(t) ==
    /\ threads[t].pc = "update"
    /\ LET f == threads[t]
           u == UpdateLoop(0, f.k, f.vectors, f.labels, f.centers, rng)
       IN  /\ rng' = u.rng
           /\ threads' = [threads EXCEPT
                 ![t].centers = u.centers,
                 ![t].pc = IF f.round < f.max_iter THEN "assign" ELSE "return"]
    /\ ThreadUnchanged

\* return labels
ThreadReturn(t) ==
    /\ threads[t].pc = "return"
    /\ threads' = [threads EXCEPT ![t].result = threads[t].labels,
                                  ![t].pc = "done"]
    /\ UNCHANGED rng
    /\ ThreadUnchanged

ThreadNext ==
    \E t \in 1..NumThreads :
        \/ ThreadSeed(t)
        \/ ThreadSample(t)
        \/ ThreadAssign(t)
        \/ ThreadUpdate(t)
        \/ ThreadReturn(t)

ThreadSpec == ThreadInit /\ [][ThreadNext]_vars

-----------------------------------------------------------------------------
(* top_signature called directly *)

SigInit ==
    /\ NoCall
    /\ threads = <<>>
    /\ direct = NoDirect
    /\ csv = NoCsv
    /\ acq = NoAcq /\ sc = NoSc
    /\ \E v \in SigVectors, l \in SigLimits :
          top_sig = [pc |-> "call", vector |-> v,
                     display_names |-> SubSeq(FeatureNames, 1, Len(v)),
                     limit |-> l, ret |-> <<>>]

TopSignatureCall ==
    /\ top_sig.pc = "call"
    /\ top_sig' = [top_sig EXCEPT
                      !.ret = TopSignature(top_sig.vector,
                                           top_sig.display_names, top_sig.limit),
                      !.pc = "returned"]
    /\ UNCHANGED <<pc, caller, rng, rng_at_call, kmVars, acArgs, acLocals,
                   acOut, threads, direct, csv, acq, sc>>

SigNext == TopSignatureCall

SigSpec == SigInit /\ [][SigNext]_vars

-----------------------------------------------------------------------------
(* The numeric helpers called directly: one call, from the state in which    *)
(* none has been made                                                        *)

MaxRows == 2
MaxWidth == 2

\* raw counts, and lists of rows of one width
CountValues == {0, Scale, 2 * Scale}
CountRowLists ==
    UNION {[1..n -> [1..w -> CountValues]] : n \in 0..MaxRows, w \in 0..MaxWidth}

\* shrink strengths given to apply_tfidf_shrinkage
DirectShrinkArgs == {-Scale, 0, Scale \div 2, DEFAULT_SHRINK * Scale}

FnInit ==
    /\ NoCall
    /\ top_sig = <<>>
    /\ threads = <<>>
    /\ direct = NoDirect
    /\ csv = NoCsv
    /\ acq = NoAcq /\ sc = NoSc

FnUnchanged ==
    UNCHANGED <<pc, caller, rng, rng_at_call, kmVars, acArgs, acLocals, acOut,
                top_sig, threads, csv, acq, sc>>

\* dot / (mag_a * mag_b) divides by zero when the product of two non-zero
\* magnitudes is zero at the working resolution
CosineDistanceRaises(a, b) ==
    LET mag_a == FSqrt(SumSquares(a))
        mag_b == FSqrt(SumSquares(b))
    IN  mag_a # 0 /\ mag_b # 0 /\ FMul(mag_a, mag_b) = 0

CallCosineDistance(a, b) ==
    /\ direct = NoDirect
    /\ direct' = IF CosineDistanceRaises(a, b)
                 THEN [fn |-> "cosine_distance", args |-> <<a, b>>,
                       ret |-> <<>>, raised |-> TRUE]
                 ELSE [fn |-> "cosine_distance", args |-> <<a, b>>,
                       ret |-> CosineDistance(a, b), raised |-> FALSE]
    /\ FnUnchanged

CallUnitVector(row) ==
    /\ direct = NoDirect
    /\ direct' = [fn |-> "unit_vector", args |-> <<row>>,
                  ret |-> UnitVector(row), raised |-> FALSE]
    /\ FnUnchanged

CallNormalizeRows(rows) ==
    /\ direct = NoDirect
    /\ direct' = [fn |-> "normalize_rows", args |-> <<rows>>,
                  ret |-> NormalizeRows(rows), raised |-> FALSE]
    /\ FnUnchanged

CallApplyTfidfShrinkage(rows, shrink) ==
    /\ direct = NoDirect
    /\ direct' = [fn |-> "apply_tfidf_shrinkage", args |-> <<rows, shrink>>,
                  ret |-> ApplyTfidfShrinkage(rows, shrink), raised |-> FALSE]
    /\ FnUnchanged

FnNext ==
    \/ \E a \in SigVectors, b \in SigVectors : CallCosineDistance(a, b)
    \/ \E row \in SigVectors : CallUnitVector(row)
    \/ \E rows \in CountRowLists : CallNormalizeRows(rows)
    \/ \E rows \in CountRowLists, shrink \in DirectShrinkArgs :
          CallApplyTfidfShrinkage(rows, shrink)

FnSpec == FnInit /\ [][FnNext]_vars

-----------------------------------------------------------------------------
(* assign_clusters on two regions at level species, two clusters, no         *)
(* shrinkage                                                                 *)

PairSpeciesLists ==
    {<<>>, <<"sp1">>, <<"sp5">>, <<"sp2", "sp3">>, <<"sp6", "sp5", "sp6">>,
     <<"sp1", "sp2", "sp3", "sp4", "sp4">>, <<"sp4", "sp3", "sp2", "sp1", "sp1">>}

PairLists ==
    {[i \in 1..2 |-> [name |-> MunicipioNames[i], code |-> MunicipioNames[i],
                      species |-> sp[i]]] : sp \in [1..2 -> PairSpeciesLists]}

PairMinSpeciesArgs == {0, 1, 3}

PairNext ==
    \/ /\ pc = "idle"
       /\ \E munis \in PairLists, minsp \in PairMinSpeciesArgs :
            CallAssignClusters(munis, Taxonomy1, "species", 2, minsp, 0)
    \/ KmeansAssign
    \/ KmeansUpdate
    \/ KmeansReturn
    \/ AssignClustersFinish
    \/ Reset

PairSpec == Init /\ [][PairNext]_vars

-----------------------------------------------------------------------------
(* main: one run of the command line program, from the call of               *)
(* assign_clusters to the CSV file                                           *)

Digits == <<"0", "1", "2", "3", "4", "5", "6", "7", "8", "9">>

\* str(n) for an integer n >= 0
RECURSIVE Str(_)
Str(n) == IF n < 10 THEN Digits[n + 1]
          ELSE Str(n \div 10) \o Digits[(n % 10) + 1]

\* sep.join(parts)
RECURSIVE Join(_, _)
Join(parts, sep) ==
    IF parts = <<>> THEN ""
    ELSE IF Len(parts) = 1 THEN parts[1]
    ELSE parts[1] \o sep \o Join(Tail(parts), sep)

LOW_SAMPLE == "amostragem baixa"

Headers == <<"cluster", "code", "municipio", "richness", "signature">>

\* variant: a region without label is written with cluster 0
CsvRow_ZeroForNone(idx) ==
    [cluster |-> IF out_labels[idx] # None THEN Str(out_labels[idx]) ELSE "0",
     code |-> municipios[idx].code,
     municipio |-> municipios[idx].name,
     richness |-> Str(Len(municipios[idx].species)),
     signature |-> IF signatures[idx] # <<>> THEN Join(signatures[idx], ",")
                   ELSE LOW_SAMPLE]

\* the dict main appends for region idx
CsvRow(idx) ==
    [cluster |-> IF out_labels[idx] # None THEN Str(out_labels[idx]) ELSE "NA",
     code |-> municipios[idx].code,
     municipio |-> municipios[idx].name,
     richness |-> Str(Len(municipios[idx].species)),
     signature |-> IF signatures[idx] # <<>> THEN Join(signatures[idx], ",")
                   ELSE LOW_SAMPLE]

\* the lines write_csv writes for rows: none at all for an empty list,
\* else the header line and one line per row
CsvLines(rows) ==
    IF rows = <<>> THEN <<>>
    ELSE <<Join(Headers, ";")>> \o
         List([r \in 1..Len(rows) |->
                 Join(List([h \in 1..Len(Headers) |-> rows[r][Headers[h]]]), ";")])

\* main, after assign_clusters returned: the rows and write_csv
MainWriteCsv ==
    /\ pc = "done" /\ caller = "assign_clusters"
    /\ LET rows == List([idx \in 1..Min(Len(municipios), Len(out_labels)) |->
                            CsvRow(idx)])
       IN  csv' = [written |-> rows # <<>>, rows |-> rows,
                   lines |-> CsvLines(rows)]
    /\ pc' = "exported"
    /\ UNCHANGED <<caller, rng, rng_at_call, kmVars, acArgs, acLocals, acOut,
                   top_sig, threads, direct, acq, sc>>

\* main returns or dies of the error raised; the process ends
MainExit ==
    /\ pc \in {"exported", "error"}
    /\ pc' = "idle"
    /\ caller' = ""
    /\ rng' = 0
    /\ rng_at_call' = 0
    /\ vectors' = <<>> /\ k_arg' = 0 /\ k' = 0 /\ max_iter' = 0
    /\ centers' = <<>> /\ labels' = <<>> /\ new_labels' = <<>>
    /\ round' = 0 /\ updated' = FALSE /\ emptyRun' = <<>> /\ result' = <<>>
    /\ municipios' = <<>> /\ taxonomy' = <<>> /\ level_key' = ""
    /\ cluster_count' = 0 /\ min_species' = 0 /\ shrink_strength' = 0
    /\ feature_rows' = <<>>
    /\ level_names' = <<>> /\ weighted_rows' = <<>> /\ row_totals' = <<>>
    /\ display_names' = <<>> /\ eligible_indices' = <<>>
    /\ out_labels' = <<>> /\ normalized' = <<>> /\ signatures' = <<>>
    /\ summary' = <<>>
    /\ csv' = NoCsv
    /\ UNCHANGED <<top_sig, threads, direct, acq, sc>>

MainNext ==
    \/ /\ pc = "idle"
       /\ \E munis \in MunicipioLists, lk \in LevelKeys, cc \in ClusterCounts,
             minsp \in MinSpeciesArgs, shrink \in ShrinkArgs :
            CallAssignClusters(munis, Taxonomy1, lk, cc, minsp, shrink * Scale)
    \/ KmeansAssign
    \/ KmeansUpdate
    \/ KmeansReturn
    \/ AssignClustersFinish
    \/ MainWriteCsv
    \/ MainExit

MainSpec == Init /\ [][MainNext]_vars

-----------------------------------------------------------------------------
(* kmeans and assign_clusters called with any cluster count, kmeans with any *)
(* iteration limit                                                           *)

AnyMaxIterArgs == {0, 1, MAX_ITER_DEFAULT}
AnyClusterCounts == {-1, 0, 1, 2}

AnyKNext ==
    \/ /\ pc = "idle"
       /\ \E vs \in VectorLists, kk \in KArgs, mi \in AnyMaxIterArgs :
            CallKmeans(vs, kk, mi)
    \/ /\ pc = "idle"
       /\ \E munis \in MunicipioLists, cc \in AnyClusterCounts :
            CallAssignClusters(munis, Taxonomy1, "order", cc, 0, 0)
    \/ KmeansAssign
    \/ KmeansUpdate
    \/ KmeansReturn
    \/ AssignClustersFinish
    \/ Reset

AnyKSpec == Init /\ [][AnyKNext]_vars

-----------------------------------------------------------------------------
(* analyze_municipios.py, main: one data-acquisition run.  The cache files   *)
(* are the region list, the taxonomy, one species list per region and the    *)
(* combined list; a request to the API succeeds or fails with an HTTPError   *)
(* or URLError.                                                              *)

NumRegions == 2

\* the codes of the regions in the region list
RegionCodes == [i \in 1..NumRegions |-> i]

\* the subsequences of the region list: what a combined cache file can hold
RegionSubLists ==
    {SelectSeq(RegionCodes, LAMBDA c : c \in keep) :
        keep \in SUBSET {RegionCodes[i] : i \in 1..NumRegions}}

Absent == [exists |-> FALSE, items |-> <<>>]

CombinedFiles == {Absent} \cup {[exists |-> TRUE, items |-> l] : l \in RegionSubLists}

AcqInit ==
    /\ NoCall
    /\ top_sig = <<>>
    /\ threads = <<>>
    /\ direct = NoDirect
    /\ csv = NoCsv
    /\ sc = NoSc
    /\ acq \in [pc : {"start"},
                api_key : BOOLEAN, refresh : BOOLEAN, cache_only : BOOLEAN,
                use_combined : BOOLEAN,
                counties_file : BOOLEAN, taxonomy_file : BOOLEAN,
                species_files : SUBSET {RegionCodes[i] : i \in 1..NumRegions},
                combined_file : CombinedFiles,
                counties : {<<>>}, results : {<<>>}, combined : {<<>>},
                idx : {0}, requests : {0}, exit_code : {-1}]

AcqUnchanged ==
    UNCHANGED <<pc, caller, rng, rng_at_call, kmVars, acArgs, acLocals, acOut,
                top_sig, threads, direct, csv, sc>>

\* return 1
AcqFail == [acq EXCEPT !.pc = "exit", !.exit_code = 1]

\* lines 659-682: arguments, the API key, the environment flags
AcqStart ==
    /\ acq.pc = "start"
    /\ acq' = IF ~acq.api_key THEN AcqFail ELSE [acq EXCEPT !.pc = "counties"]
    /\ AcqUnchanged

\* lines 684-701: the region list, from its cache or from the API
AcqLoadCounties ==
    /\ acq.pc = "counties"
    /\ IF ~acq.refresh /\ acq.counties_file
       THEN acq' = [acq EXCEPT !.counties = RegionCodes, !.pc = "taxonomy"]
       ELSE IF acq.cache_only
       THEN acq' = AcqFail
       ELSE \E ok \in BOOLEAN :
               acq' = IF ok
                      THEN [acq EXCEPT !.requests = @ + 1,
                                       !.counties = RegionCodes,
                                       !.counties_file = TRUE,
                                       !.pc = "taxonomy"]
                      ELSE [AcqFail EXCEPT !.requests = @ + 1]
    /\ AcqUnchanged

\* lines 703-716: the taxonomy, from its cache or from the API; a failed
\* request leaves an empty taxonomy and the run goes on
AcqLoadTaxonomy ==
    /\ acq.pc = "taxonomy"
    /\ IF ~acq.refresh /\ acq.taxonomy_file
       THEN acq' = [acq EXCEPT !.pc = "combined"]
       ELSE IF acq.cache_only
       THEN acq' = AcqFail
       ELSE \E ok \in BOOLEAN :
               acq' = IF ok
                      THEN [acq EXCEPT !.requests = @ + 1,
                                       !.taxonomy_file = TRUE,
                                       !.pc = "combined"]
                      ELSE [acq EXCEPT !.requests = @ + 1, !.pc = "combined"]
    /\ AcqUnchanged

\* lines 718-732: the combined cache, when allowed and not refreshing; its
\* items become the results
AcqLoadCombined ==
    /\ acq.pc = "combined"
    /\ LET loaded == IF acq.use_combined /\ ~acq.refresh
                        /\ acq.combined_file.exists
                     THEN acq.combined_file.items ELSE <<>>
       IN  acq' = IF loaded # <<>>
                  THEN [acq EXCEPT !.results = loaded, !.pc = "report"]
                  ELSE [acq EXCEPT !.idx = 1, !.combined = <<>>, !.pc = "loop"]
    /\ AcqUnchanged

\* variant: a missing species list is requested even in cache-only mode
AcqRegion_AlwaysFetch ==
    /\ acq.pc = "loop"
    /\ acq.idx <= Len(acq.counties)
    /\ LET code == acq.counties[acq.idx]
           taken == [acq EXCEPT !.results = Append(@, code),
                                !.combined = Append(@, code),
                                !.idx = @ + 1]
           skipped == [acq EXCEPT !.idx = @ + 1]
       IN  IF ~acq.refresh /\ code \in acq.species_files
           THEN acq' = taken
           ELSE \E ok \in BOOLEAN :
                   acq' = IF ok
                          THEN [taken EXCEPT !.requests = @ + 1,
                                             !.species_files = @ \cup {code}]
                          ELSE [skipped EXCEPT !.requests = @ + 1]
    /\ AcqUnchanged

\* lines 737-761: one iteration of the loop over the regions
AcqRegion ==
    /\ acq.pc = "loop"
    /\ acq.idx <= Len(acq.counties)
    /\ LET code == acq.counties[acq.idx]
           taken == [acq EXCEPT !.results = Append(@, code),
                                !.combined = Append(@, code),
                                !.idx = @ + 1]
           skipped == [acq EXCEPT !.idx = @ + 1]
       IN  IF ~acq.refresh /\ code \in acq.species_files
           THEN acq' = taken
           ELSE IF acq.cache_only
           THEN acq' = skipped
           ELSE \E ok \in BOOLEAN :
                   acq' = IF ok
                          THEN [taken EXCEPT !.requests = @ + 1,
                                             !.species_files = @ \cup {code}]
                          ELSE [skipped EXCEPT !.requests = @ + 1]
    /\ AcqUnchanged

\* lines 762-764: the combined cache is saved when a region was taken
AcqSaveCombined ==
    /\ acq.pc = "loop"
    /\ acq.idx > Len(acq.counties)
    /\ acq' = IF acq.combined # <<>>
              THEN [acq EXCEPT !.combined_file =
                                  [exists |-> TRUE, items |-> acq.combined],
                               !.pc = "report"]
              ELSE [acq EXCEPT !.pc = "report"]
    /\ AcqUnchanged

\* lines 766-800: the table and the workbook; return 0
AcqReport ==
    /\ acq.pc = "report"
    /\ acq' = [acq EXCEPT !.pc = "exit", !.exit_code = 0]
    /\ AcqUnchanged

AcqNext ==
    \/ AcqStart
    \/ AcqLoadCounties
    \/ AcqLoadTaxonomy
    \/ AcqLoadCombined
    \/ AcqRegion
    \/ AcqSaveCombined
    \/ AcqReport

AcqSpec == AcqInit /\ [][AcqNext]_vars

-----------------------------------------------------------------------------
(* analyze_municipios.py, save_cache(path, payload).  A file's content is    *)
(* the sequence of pieces written to it; json.dump writes the payload piece  *)
(* by piece and can fail at any piece.  A file <path>.tmp left by an         *)
(* earlier failed call may exist.                                            *)

MaxChunks == 3

Chunks == {"a", "b"}

\* the serialized payloads: one piece at least
Payloads == UNION {[1..n -> Chunks] : n \in 1..MaxChunks}

\* a file: absent, or present with some content
Files ==
    {Absent} \cup
    {[exists |-> TRUE, items |-> d] :
        d \in UNION {[1..n -> Chunks] : n \in 0..(MaxChunks - 1)}}

ScInit ==
    /\ NoCall
    /\ top_sig = <<>>
    /\ threads = <<>>
    /\ direct = NoDirect
    /\ csv = NoCsv
    /\ acq = NoAcq
    /\ sc \in [pc : {"call"}, payload : Payloads, path : Files, tmp : Files,
               before : Files]
    /\ sc.before = sc.path

ScUnchanged ==
    UNCHANGED <<pc, caller, rng, rng_at_call, kmVars, acArgs, acLocals, acOut,
                top_sig, threads, direct, csv, acq>>

\* open(tmp_path, "w"): the file is created or truncated; or open fails
ScOpen ==
    /\ sc.pc = "call"
    /\ \/ sc' = [sc EXCEPT !.tmp = [exists |-> TRUE, items |-> <<>>],
                           !.pc = "writing"]
       \/ sc' = [sc EXCEPT !.pc = "raised"]
    /\ ScUnchanged

\* variant: the payload is written to path itself
ScWrite_ToPath ==
    /\ sc.pc = "writing"
    /\ Len(sc.tmp.items) < Len(sc.payload)
    /\ sc' = [sc EXCEPT
                !.tmp.items = Append(@, sc.payload[Len(@) + 1]),
                !.path = [exists |-> TRUE,
                          items |-> SubSeq(sc.payload, 1, Len(sc.tmp.items) + 1)]]
    /\ ScUnchanged

\* json.dump: the next piece of the payload reaches the file
ScWrite ==
    /\ sc.pc = "writing"
    /\ Len(sc.tmp.items) < Len(sc.payload)
    /\ sc' = [sc EXCEPT !.tmp.items = Append(@, sc.payload[Len(@) + 1])]
    /\ ScUnchanged

\* the write fails (the payload cannot be serialized further, the disk is
\* full): the with block closes the file and the error leaves save_cache
ScWriteFails ==
    /\ sc.pc = "writing"
    /\ sc' = [sc EXCEPT !.pc = "raised"]
    /\ ScUnchanged

\* the with block ends after the whole payload is written
ScClose ==
    /\ sc.pc = "writing"
    /\ Len(sc.tmp.items) = Len(sc.payload)
    /\ sc' = [sc EXCEPT !.pc = "closed"]
    /\ ScUnchanged

\* os.replace(tmp_path, path): one atomic rename
ScReplace ==
    /\ sc.pc = "closed"
    /\ sc' = [sc EXCEPT !.path = sc.tmp, !.tmp = Absent, !.pc = "returned"]
    /\ ScUnchanged

ScNext ==
    \/ ScOpen
    \/ ScWrite
    \/ ScWriteFails
    \/ ScClose
    \/ ScReplace

ScSpec == ScInit /\ [][ScNext]_vars

-----------------------------------------------------------------------------
(* Properties *)

\* assign_clusters has returned / kmeans has returned to a direct caller
ACDone == pc = "done" /\ caller = "assign_clusters"
KMDone == pc = "done" /\ caller = "kmeans"

LabelSet(lbls) == {lbls[i] : i \in 1..Len(lbls)}

\* the raw row total of region i: every species entry counts once, in exactly
\* one feature of the level
RawTotal(i) == Len(municipios[i].species)

\* the regions that reach the evidence threshold
Eligible == {i \in 1..Len(municipios) : RawTotal(i) >= min_species}

HasPositive(row) == \E j \in 1..Len(row) : row[j] > 0

\* C1: kmeans called on a non-empty list with 1 <= k <= len(vectors) does not
\* raise, and returns exactly len(vectors) labels, each an integer in [0, k).
C1_LabelsInRange ==
    (vectors # <<>> /\ 1 <= k_arg /\ k_arg <= Len(vectors)) =>
        /\ pc # "error"
        /\ pc \in {"done", "ac_finish"} =>
              /\ Len(result) = Len(vectors)
              /\ \A i \in 1..Len(result) : result[i] \in 0..(k_arg - 1)

C1_Witness ==
    /\ KMDone
    /\ k_arg = 2 /\ Len(vectors) = 3
    /\ round >= 2
    /\ LabelSet(result) = {0, 1}

\* C2: a cluster left empty by an assignment step is reseeded in the update
\* step, and no cluster stays empty through the following assignment steps up
\* to the returned labelling: when kmeans returns, no cluster has been empty
\* in each of the last two assignment steps.
C2_NoClusterStaysEmpty ==
    pc = "km_return" => \A c \in 0..(k - 1) : emptyRun[c] < 2

\* two rows share no feature
DisjointSupport(a, b) == \A j \in 1..Len(a) : a[j] = 0 \/ b[j] = 0

C4_SameAsFreshRun ==
    /\ pc = "km_return" =>
          LET fresh == KMeans(vectors, k_arg, max_iter, 0)
          IN  ~fresh.raised /\ labels = fresh.labels
    /\ pc = "error" => KMeans(vectors, k_arg, max_iter, 0).raised

C4_Witness ==
    /\ pc = "km_return"
    /\ rng_at_call # 0
    /\ round >= 2
    /\ EmptyClusters(labels, k) # {}
    /\ Cardinality(LabelSet(labels)) >= 2
    /\ Sample(Len(vectors), k, rng_at_call).val # Sample(Len(vectors), k, 0).val

\* C5: after assign_clusters, a region's label is absent exactly when its raw
\* row total is below min_evidence, and every other region has an integer
\* label in [0, min(cluster_count, number of eligible regions)).
C5_AbsentIffBelowThreshold ==
    ACDone =>
        /\ Len(out_labels) = Len(municipios)
        /\ \A i \in 1..Len(municipios) :
              /\ out_labels[i] = None <=> RawTotal(i) < min_species
              /\ out_labels[i] # None =>
                    out_labels[i] \in
                        0..(Min(cluster_count, Cardinality(Eligible)) - 1)

C5_Witness ==
    /\ ACDone
    /\ min_species = 2
    /\ \E i, j \in 1..Len(municipios) :
          /\ RawTotal(i) = 1 /\ out_labels[i] = None
          /\ RawTotal(j) = 2 /\ out_labels[j] = 1

\* C6: a region without a label is in no summary's member list and its
\* signature is the empty list.
C6_UnlabelledLeftOut ==
    ACDone =>
        \A i \in 1..Len(municipios) :
            out_labels[i] = None =>
                /\ signatures[i] = <<>>
                /\ \A c \in DOMAIN summary :
                      \A m \in 1..Len(summary[c].municipios) :
                          summary[c].municipios[m] # municipios[i].name

C6_Witness ==
    /\ ACDone
    /\ DOMAIN summary # {}
    /\ \E i \in 1..Len(municipios) :
          out_labels[i] = None /\ HasPositive(normalized[i])

\* C7, as stated: with min_evidence = 30, a region whose only evidence is one
\* species has an absent label and still has a one-element signature.
C7_OneSpeciesKeepsSignature ==
    (ACDone /\ min_species = DEFAULT_MIN_SPECIES) =>
        \A i \in 1..Len(municipios) :
            RawTotal(i) = 1 =>
                out_labels[i] = None /\ Len(signatures[i]) = 1

\* C7, amended: with min_evidence = 30, a region whose only evidence is one
\* species has an absent label, and its entry in the per-region signatures is
\* the empty list although its unit vector is not zero.
C7_OneSpeciesEmptySignature ==
    (ACDone /\ min_species = DEFAULT_MIN_SPECIES) =>
        /\ Len(signatures) = Len(municipios)
        /\ \A i \in 1..Len(municipios) :
              RawTotal(i) = 1 =>
                  /\ out_labels[i] = None
                  /\ signatures[i] = <<>>
                  /\ HasPositive(normalized[i])

C7_Witness ==
    /\ ACDone
    /\ min_species = DEFAULT_MIN_SPECIES
    /\ \E i \in 1..Len(municipios) :
          /\ RawTotal(i) = 1
          /\ TopSignature(normalized[i], display_names, SIGNATURE_LIMIT) # <<>>

\* the rank of eligible region i among the eligible regions, in input order
EligibleRank(i) == Cardinality({e \in Eligible : e <= i})

\* C8: labels, unit vectors and signatures have one entry per region, entry i
\* belonging to the i-th input region, and the j-th eligible region in input
\* order gets the j-th label kmeans returned.
C8_InputOrder ==
    ACDone =>
        /\ Len(out_labels) = Len(municipios)
        /\ Len(normalized) = Len(municipios)
        /\ Len(signatures) = Len(municipios)
        /\ Len(result) = Cardinality(Eligible)
        /\ \A i \in Eligible : out_labels[i] = result[EligibleRank(i)]
        /\ \A i \in 1..Len(municipios) :
              /\ HasPositive(normalized[i]) <=> RawTotal(i) > 0
              /\ shrink_strength = 0 =>
                    \A j \in 1..Len(level_names) :
                        normalized[i][j] > 0 <=>
                            FeatureCount(municipios[i], taxonomy, level_key,
                                         level_names[j]) > 0

C8_Witness ==
    /\ ACDone
    /\ Len(municipios) = 3
    /\ out_labels[1] = None
    /\ out_labels[2] = 1 /\ out_labels[3] = 0
    /\ result = <<1, 0>>

\* the position of the region of a given name
RegionOf(name) == CHOOSE i \in 1..Len(municipios) : municipios[i].name = name

Labelled == {i \in 1..Len(municipios) : out_labels[i] # None}

\* C9: the summaries have one key per distinct non-absent label; a key's
\* member list holds exactly the regions with that label, in input order; its
\* size is the length of the list; no list is empty; the sizes sum to the
\* number of labelled regions.
C9_SummariesPartition ==
    ACDone =>
        /\ DOMAIN summary = LabelSet(out_labels) \ {None}
        /\ \A c \in DOMAIN summary :
              LET members == summary[c].municipios
              IN  /\ {members[m] : m \in 1..Len(members)} =
                        {municipios[i].name : i \in {x \in Labelled : out_labels[x] = c}}
                  /\ \A m, n \in 1..Len(members) :
                        m < n => RegionOf(members[m]) < RegionOf(members[n])
                  /\ summary[c].size = Len(members)
                  /\ Len(members) >= 1
        /\ SumSeq([c \in 1..Len(municipios) |->
                      IF (c - 1) \in DOMAIN summary THEN summary[c - 1].size ELSE 0])
              = Cardinality(Labelled)

C9_Witness ==
    /\ ACDone
    /\ Cardinality(DOMAIN summary) = 2
    /\ \E c \in DOMAIN summary : summary[c].size = 2

\* the arithmetic mean of the unit vectors of the regions labelled c
MeanOfMembers(c) ==
    LET members == {i \in 1..Len(out_labels) : out_labels[i] = c}
    IN  [j \in 1..Len(display_names) |->
            SumSeq([i \in 1..Len(out_labels) |->
                      IF i \in members THEN normalized[i][j] ELSE 0])
                \div Cardinality(members)]

\* C10: a summary's signature is the top-3 signature, by the rule of
\* top_signature, of the arithmetic mean of its members' unit vectors.
C10_SummarySignature ==
    ACDone =>
        \A c \in DOMAIN summary :
            summary[c].signature =
                TopSignature(MeanOfMembers(c), display_names, 3)

C10_Witness ==
    /\ ACDone
    /\ \E c \in DOMAIN summary :
          /\ summary[c].size = 2
          /\ \E i, j \in 1..Len(out_labels) :
                /\ out_labels[i] = c /\ out_labels[j] = c
                /\ normalized[i] # normalized[j]
          /\ Len(summary[c].signature) = 3
          /\ Len(display_names) > 3

\* C11: a labelled region's signature is top_signature of its own unit
\* vector, and it is the signature the region gets when assign_clusters is
\* called with another cluster_count and otherwise the same arguments.
C11_SignatureIgnoresClusterCount ==
    ACDone =>
        /\ \A i \in Eligible :
              signatures[i] =
                  TopSignature(normalized[i], display_names, SIGNATURE_LIMIT)
        /\ \A cc \in ClusterCounts \ {cluster_count} :
              LET other == AssignClusters(municipios, taxonomy, level_key, cc,
                                          min_species, shrink_strength, 0)
              IN  ~other.raised =>
                      \A i \in Eligible : signatures[i] = other.signatures[i]

C11_Witness ==
    /\ ACDone
    /\ cluster_count = 2
    /\ \E i, j \in Eligible :
          /\ i # j /\ out_labels[i] = out_labels[j]
          /\ signatures[i] # signatures[j]
          /\ signatures[i] # summary[out_labels[i]].signature
          /\ AssignClusters(municipios, taxonomy, level_key, 8, min_species,
                            shrink_strength, 0).labels # out_labels

SigReturned == top_sig # <<>> /\ top_sig.pc = "returned"

\* the positions of the vector whose name was returned
ReturnedPositions ==
    {p \in 1..Len(top_sig.vector) :
        \E m \in 1..Len(top_sig.ret) : top_sig.ret[m] = top_sig.display_names[p]}

\* C12: for every vector, name list of the same length and limit >= 0,
\* top_signature returns at most limit names and no name of a position whose
\* value is <= 0.
C12_AtMostLimitAllPositive ==
    SigReturned =>
        /\ Len(top_sig.ret) <= top_sig.limit
        /\ \A m \in 1..Len(top_sig.ret) :
              \E p \in 1..Len(top_sig.vector) :
                  top_sig.ret[m] = top_sig.display_names[p]
        /\ \A p \in ReturnedPositions : top_sig.vector[p] > 0

C12_Witness ==
    /\ SigReturned
    /\ top_sig.vector = <<0, Scale, -Scale>>
    /\ top_sig.limit = 2
    /\ Len(top_sig.ret) = 1

\* position q comes before position p: a higher value, or the same value and
\* a lower index
Before(q, p) ==
    \/ top_sig.vector[q] > top_sig.vector[p]
    \/ top_sig.vector[q] = top_sig.vector[p] /\ q < p

\* the positions among the limit highest-valued ones that have a positive value
TopPositive ==
    {p \in 1..Len(top_sig.vector) :
        /\ Cardinality({q \in 1..Len(top_sig.vector) : Before(q, p)}) < top_sig.limit
        /\ top_sig.vector[p] > 0}

\* C13: top_signature returns the names of the limit highest-valued positions
\* (those of them with a positive value) in descending order of value,
\* positions of equal value in their original order, lower index first.
C13_DescendingStable ==
    SigReturned =>
        /\ Len(top_sig.ret) = Cardinality(TopPositive)
        /\ \A p \in TopPositive :
              top_sig.ret[Cardinality({q \in TopPositive : Before(q, p)}) + 1]
                  = top_sig.display_names[p]

C13_Witness ==
    /\ SigReturned
    /\ top_sig.vector = <<Scale \div 2, Scale, Scale \div 2>>
    /\ top_sig.limit = 2
    /\ top_sig.ret = <<"f2", "f1">>

\* assign_clusters has been called and has built its feature matrix
ACCalled == caller = "assign_clusters"

\* the feature a species entry stands for: the code itself at level species,
\* else the taxonomy's value for the level, "unknown" for a code the taxonomy
\* does not have
MapsTo(code) ==
    IF level_key = "species" THEN code
    ELSE IF code \in DOMAIN taxonomy THEN taxonomy[code][level_key]
    ELSE "unknown"

\* the place of a string in lexicographic order
LexPos(name) == CHOOSE p \in 1..Len(LexOrder) : LexOrder[p] = name

\* C14: level_names holds the distinct feature values seen in any region, in
\* strictly increasing lexicographic order; the matrix has one row per region
\* in input order, and matrix[i][j] is the number of entries of region i's
\* species list that map to level_names[j], a repeated code counting each
\* time; an empty region list gives an empty matrix and empty level_names.
C14_FeatureMatrix ==
    ACCalled =>
        /\ {level_names[j] : j \in 1..Len(level_names)} =
              UNION {{MapsTo(municipios[i].species[x]) :
                          x \in 1..Len(municipios[i].species)} :
                      i \in 1..Len(municipios)}
        /\ \A j \in 1..(Len(level_names) - 1) :
              LexPos(level_names[j]) < LexPos(level_names[j + 1])
        /\ Len(feature_rows) = Len(municipios)
        /\ \A i \in 1..Len(municipios) :
              /\ Len(feature_rows[i]) = Len(level_names)
              /\ \A j \in 1..Len(level_names) :
                    feature_rows[i][j] =
                        Scale * Cardinality(
                            {x \in 1..Len(municipios[i].species) :
                                MapsTo(municipios[i].species[x]) = level_names[j]})
        /\ municipios = <<>> => (feature_rows = <<>> /\ level_names = <<>>)

C14_Witness ==
    /\ ACCalled
    /\ level_key = "order"
    /\ level_names = <<"Passeriformes", "Piciformes", "unknown">>
    /\ feature_rows = <<<<Scale, 0, 0>>, <<0, 0, 2 * Scale>>, <<Scale, Scale, 0>>>>

\* C15: at level family or order every entry whose code the taxonomy does
\* not have is counted under the feature "unknown"; at level species the
\* feature is the code itself, known or not, and the display name of a code
\* the taxonomy does not have is the code; such a code never makes the call
\* raise.
C15_UnknownCodes ==
    ACCalled =>
        /\ pc = "error" => cluster_count <= 0
        /\ \A i \in 1..Len(municipios) :
              LET missing == {x \in 1..Len(municipios[i].species) :
                                municipios[i].species[x] \notin DOMAIN taxonomy}
              IN  missing # {} =>
                    IF level_key = "species"
                    THEN \A x \in missing :
                            \E j \in 1..Len(level_names) :
                                /\ level_names[j] = municipios[i].species[x]
                                /\ display_names[j] = municipios[i].species[x]
                                /\ feature_rows[i][j] >= Scale
                    ELSE \E j \in 1..Len(level_names) :
                            /\ level_names[j] = "unknown"
                            /\ feature_rows[i][j] = Scale * Cardinality(missing)
        /\ level_key = "species" =>
              \A i \in 1..Len(municipios) :
                  \A x \in 1..Len(municipios[i].species) :
                      \E j \in 1..Len(level_names) :
                          level_names[j] = municipios[i].species[x]

C15_Witness ==
    /\ ACDone
    /\ level_key = "family"
    /\ \E i \in 1..Len(municipios), j \in 1..Len(level_names) :
          /\ municipios[i].species = <<"sp4", "sp4">>
          /\ level_names[j] = "unknown"
          /\ feature_rows[i][j] = 2 * Scale
          /\ out_labels[i] # None

\* C16: kmeans performs at most max_iter assignment rounds and stops at the
\* first round whose assignment equals the previous round's assignment,
\* whichever comes first; the labels returned are those of the last round
\* performed.  So when the loop is left, either max_iter rounds were made or
\* there was a previous round and its assignment was repeated.
C16_StopsOnRepeatOrMaxIter ==
    (pc = "km_return" /\ vectors # <<>>) =>
        /\ round <= max_iter
        /\ labels = new_labels
        /\ \/ round = max_iter
           \/ round >= 2 /\ ~updated

\* an assignment step has just run and the centers are still those it used
JustAssigned ==
    \/ pc = "km_update"
    \/ pc = "km_return" /\ round >= 1 /\ ~updated

\* the distance of vector v to the center of cluster c
DistanceTo(v, c) == CosineDistance(vectors[v], centers[c + 1])

\* C17: in every assignment step each vector gets a center of minimum cosine
\* distance to it, and among several centers at that minimum the one of the
\* lowest cluster index.
C17_NearestLowestIndex ==
    JustAssigned =>
        \A v \in 1..Len(vectors) :
            \A c \in 0..(k - 1) :
                /\ DistanceTo(v, new_labels[v]) <= DistanceTo(v, c)
                /\ c < new_labels[v] =>
                      DistanceTo(v, c) > DistanceTo(v, new_labels[v])

C17_Witness ==
    /\ JustAssigned
    /\ \E v \in 1..Len(vectors) :
          \E c \in 0..(k - 1) :
              /\ c > new_labels[v]
              /\ DistanceTo(v, c) = DistanceTo(v, new_labels[v])
              /\ DistanceTo(v, c) < Scale
    /\ \E v \in 1..Len(vectors) : new_labels[v] > 0

\* C18: kmeans calls run by several threads share no mutable state: under
\* every interleaving of their steps each call returns the labels it returns
\* when run alone.
C18_ThreadsReturnSoloLabels ==
    \A t \in DOMAIN threads :
        threads[t].pc = "done" =>
            threads[t].result =
                KMeans(threads[t].vectors, threads[t].k_arg,
                       threads[t].max_iter, 0).labels

\* the rows of weighted_rows that assign_clusters hands to kmeans
EligibleRows ==
    List([j \in 1..Len(eligible_indices) |-> weighted_rows[eligible_indices[j]]])

\* C19: no step changes its inputs or an earlier step's output in place: from
\* the entry of a call to its end the arguments (region records, taxonomy, the
\* vectors given to kmeans) and every intermediate result already computed
\* (feature rows, weighted rows, row totals, names, eligible indices, and the
\* labels kmeans returned) stay as they were; when assign_clusters returns,
\* the rows kmeans worked on are still the eligible weighted rows and the
\* returned unit vectors, labels, signatures and summaries are the ones
\* computed from those unchanged values.
C19_NoInPlaceChange ==
    [][/\ (pc # "idle" /\ pc' # "idle") =>
            UNCHANGED <<acArgs, acLocals, vectors, k_arg, max_iter>>
       /\ pc = "ac_finish" => UNCHANGED result
       /\ (pc = "ac_finish" /\ pc' = "done") =>
            /\ feature_rows' =
                   BuildFeatureMatrix(municipios', taxonomy', level_key').matrix
            /\ weighted_rows' =
                   ApplyTfidfShrinkage(feature_rows',
                                       shrink_strength').weighted_rows
            /\ (eligible_indices' # <<>> => vectors' = EligibleRows')
            /\ normalized' = List([i \in 1..Len(weighted_rows') |->
                                     UnitVector(weighted_rows'[i])])
            /\ out_labels' = MapLabelsBack(Len(municipios'), eligible_indices',
                                           result')
            /\ signatures' = RegionSignatures(out_labels', normalized',
                                              display_names')
            /\ summary' = SummarizeClusters(municipios', out_labels',
                                            normalized', display_names')
      ]_vars

\* assign_clusters returned after kmeans ran an update step on two or more
\* eligible rows that are not of unit length, and two clusters were summarized
C19_Witness ==
    /\ ACDone
    /\ round >= 2
    /\ Len(vectors) >= 2
    /\ \E j \in 1..Len(vectors) : UnitVector(vectors[j]) # vectors[j]
    /\ Cardinality(Labelled) >= 2
    /\ Cardinality(DOMAIN summary) >= 2

\* the unit vectors of the eligible regions
EligibleUnitRows ==
    List([j \in 1..Len(eligible_indices) |-> normalized[eligible_indices[j]]])

\* C20: the vectors assign_clusters partitions are the unit-normalized vectors
\* of the eligible regions: the labels it returns for the eligible regions are
\* the labels of kmeans run on those unit vectors.  Stated for calls in which
\* every region has observations, where no vector is all-zero.
C20_LabelsOfUnitVectors ==
    (/\ ACDone
     /\ eligible_indices # <<>>
     /\ \A i \in 1..Len(row_totals) : row_totals[i] > 0) =>
        result = KMeans(EligibleUnitRows, cluster_count, MAX_ITER_DEFAULT,
                        rng_at_call).labels

\* the quantities of the weighting, from the raw counts of the call in progress
RowTotal(i) == SumSeq(feature_rows[i])

ColumnSum(j) ==
    SumSeq(List([r \in 1..Len(feature_rows) |-> feature_rows[r][j]]))

GrandTotal == SumSeq(List([j \in 1..Len(level_names) |-> ColumnSum(j)]))

Tf(i, j) == FDiv(feature_rows[i][j], RowTotal(i))

GlobalShare(j) == FDiv(ColumnSum(j), GrandTotal)

DocFrequency(j) ==
    Cardinality({r \in 1..Len(feature_rows) : feature_rows[r][j] > 0})

Idf(j) == FLogRatio(1 + Len(feature_rows), 1 + DocFrequency(j)) + Scale

OwnWeight(i) == FDiv(RowTotal(i), RowTotal(i) + shrink_strength)

\* C21: for a region with raw total t > 0 and shrink strength s >= 0 the
\* weighted value is (w * tf + (1 - w) * global) * idf with w = t / (t + s), tf
\* the row divided by t and global the column sums divided by the grand total;
\* with s = 0 it is tf * idf; row_totals[i] is the sum of the raw counts of
\* row i.
C21_WeightedValue ==
    ACCalled =>
        \A i \in 1..Len(municipios) :
            /\ row_totals[i] = RowTotal(i)
            /\ row_totals[i] = RawTotal(i) * Scale
            /\ RowTotal(i) > 0 =>
                \A j \in 1..Len(level_names) :
                    /\ weighted_rows[i][j] =
                          FMul(FMul(OwnWeight(i), Tf(i, j))
                               + FMul(Scale - OwnWeight(i), GlobalShare(j)),
                               Idf(j))
                    /\ shrink_strength = 0 =>
                          weighted_rows[i][j] = FMul(Tf(i, j), Idf(j))

\* a call with s > 0 and a region with observations whose composition is not
\* the global one, so that shrinkage moves its weighted row
C21_Witness ==
    /\ ACCalled
    /\ shrink_strength > 0
    /\ \E i \in 1..Len(municipios) :
          /\ RowTotal(i) > 0
          /\ \E j \in 1..Len(level_names) :
                /\ Tf(i, j) # GlobalShare(j)
                /\ weighted_rows[i][j] # FMul(Tf(i, j), Idf(j))
                /\ weighted_rows[i][j] # FMul(GlobalShare(j), Idf(j))

IsZero(row) == \A j \in 1..Len(row) : row[j] = 0

\* C22: degenerate inputs do not raise and take the fallback: cosine_distance
\* is exactly 1.0 when an argument has zero magnitude (the empty vector
\* included), unit_vector of an all-zero vector is the all-zero vector of the
\* same length, and a row of raw total 0 gets an all-zero weighted row
\* whatever the shrink strength.
C22_DegenerateFallbacks ==
    /\ (direct.fn = "cosine_distance"
        /\ (IsZero(direct.args[1]) \/ IsZero(direct.args[2]))) =>
           ~direct.raised /\ direct.ret = Scale
    /\ (direct.fn = "unit_vector" /\ IsZero(direct.args[1])) =>
           /\ ~direct.raised
           /\ Len(direct.ret) = Len(direct.args[1])
           /\ IsZero(direct.ret)
    /\ direct.fn = "apply_tfidf_shrinkage" =>
           /\ ~direct.raised
           /\ \A i \in 1..Len(direct.args[1]) :
                 SumSeq(direct.args[1][i]) = 0 =>
                     /\ Len(direct.ret.weighted_rows[i]) = Len(direct.args[1][i])
                     /\ IsZero(direct.ret.weighted_rows[i])

\* apply_tfidf_shrinkage returned for s > 0 and two rows, one of total 0 and
\* one with observations, whose weighted row is not all-zero
C22_Witness ==
    /\ direct.fn = "apply_tfidf_shrinkage"
    /\ direct.args[2] > 0
    /\ \E i, r \in 1..Len(direct.args[1]) :
          /\ Len(direct.args[1][i]) > 0
          /\ SumSeq(direct.args[1][i]) = 0
          /\ SumSeq(direct.args[1][r]) > 0
          /\ ~IsZero(direct.ret.weighted_rows[r])

\* C23: for rows of non-negative counts normalize_rows returns rows of the
\* same shape; a row of zero total is all-zero, every entry of another row is
\* the count divided by the row total, and such a row sums to 1 (here up to
\* one unit of the resolution per entry, the rounding of the divisions).
C23_NormalizeRows ==
    direct.fn = "normalize_rows" =>
        LET rows == direct.args[1]
            out == direct.ret
        IN  /\ ~direct.raised
            /\ Len(out) = Len(rows)
            /\ \A i \in 1..Len(rows) :
                  /\ Len(out[i]) = Len(rows[i])
                  /\ SumSeq(rows[i]) = 0 => IsZero(out[i])
                  /\ SumSeq(rows[i]) > 0 =>
                        /\ \A j \in 1..Len(rows[i]) :
                              out[i][j] = FDiv(rows[i][j], SumSeq(rows[i]))
                        /\ SumSeq(out[i]) <= Scale
                        /\ SumSeq(out[i]) > Scale - Len(rows[i])

\* normalize_rows returned for a row of zero total next to a row of unequal
\* positive counts
C23_Witness ==
    /\ direct.fn = "normalize_rows"
    /\ \E i, r \in 1..Len(direct.args[1]) :
          /\ Len(direct.args[1][i]) = 2
          /\ SumSeq(direct.args[1][i]) = 0
          /\ direct.args[1][r][1] > direct.args[1][r][2]
          /\ direct.args[1][r][2] > 0
          /\ direct.ret[r][1] > direct.ret[r][2]

SpeciesSet(i) == {municipios[i].species[x] : x \in 1..Len(municipios[i].species)}

\* two regions with disjoint species sets, both eligible, clustered at level
\* species with two clusters and no shrinkage
TwoDisjointRegions ==
    /\ ACDone
    /\ Len(municipios) = 2
    /\ level_key = "species" /\ cluster_count = 2 /\ shrink_strength = 0
    /\ SpeciesSet(1) \cap SpeciesSet(2) = {}
    /\ \A i \in 1..2 : RawTotal(i) >= min_species

\* distinct labels, and each cluster summary's signature is the signature of
\* its single member: the names of that region's 3 highest-weighted species
DistinctWithOwnSignatures ==
    /\ out_labels[1] # None /\ out_labels[2] # None
    /\ out_labels[1] # out_labels[2]
    /\ \A i \in 1..2 :
          /\ summary[out_labels[i]].municipios = <<municipios[i].name>>
          /\ summary[out_labels[i]].signature = signatures[i]
          /\ signatures[i] =
                TopSignature(weighted_rows[i], display_names, SIGNATURE_LIMIT)

Exported == pc = "exported"

\* C25: the CSV export has exactly one row per input region, in input order;
\* the cluster field is "NA" exactly when the region's label is absent and the
\* label's decimal text otherwise; the signature field is the comma-joined
\* per-region signature, or the low-sample sentinel exactly when that
\* signature is empty.
C25_CsvRows ==
    Exported =>
        /\ Len(csv.rows) = Len(municipios)
        /\ csv.written => Len(csv.lines) = 1 + Len(municipios)
        /\ csv.written <=> municipios # <<>>
        /\ \A i \in 1..Len(municipios) :
              /\ csv.rows[i].code = municipios[i].code
              /\ csv.rows[i].municipio = municipios[i].name
              /\ csv.rows[i].cluster = "NA" <=> out_labels[i] = None
              /\ out_labels[i] # None =>
                    /\ out_labels[i] \in 0..9
                    /\ csv.rows[i].cluster = Digits[out_labels[i] + 1]
              /\ csv.rows[i].signature = LOW_SAMPLE <=> signatures[i] = <<>>
              /\ signatures[i] # <<>> =>
                    csv.rows[i].signature = Join(signatures[i], ",")
              /\ csv.lines[i + 1] =
                    csv.rows[i].cluster \o ";" \o csv.rows[i].code \o ";"
                    \o csv.rows[i].municipio \o ";" \o csv.rows[i].richness
                    \o ";" \o csv.rows[i].signature

\* an export of three regions: one without label, two with different labels,
\* a signature of two names among them
C25_Witness ==
    /\ Exported
    /\ Len(municipios) = 3
    /\ \E i, j, n \in 1..3 :
          /\ csv.rows[i].cluster = "NA" /\ csv.rows[i].signature = LOW_SAMPLE
          /\ csv.rows[j].cluster = "0"
          /\ csv.rows[n].cluster = "1"
          /\ Len(signatures[n]) = 2

\* C26: a vector of zero magnitude given to kmeans is at distance 1.0 from
\* every center in every round and is always assigned to cluster 0; no cluster
\* other than 0 ever holds it.
C26_ZeroVectorInClusterZero ==
    (pc \in {"km_assign", "km_update", "km_return", "ac_finish", "done"}
     /\ vectors # <<>>) =>
        \A v \in 1..Len(vectors) :
            IsZero(vectors[v]) =>
                /\ \A c \in 1..Len(centers) :
                      CosineDistance(vectors[v], centers[c]) = Scale
                /\ new_labels # <<>> => new_labels[v] = 0
                /\ labels # <<>> => labels[v] = 0
                /\ pc \in {"ac_finish", "done"} => result[v] = 0

\* kmeans returned after a second round with k >= 2: a zero vector sits in
\* cluster 0 while another vector is in a higher cluster
C26_Witness ==
    /\ KMDone
    /\ k >= 2
    /\ round >= 2
    /\ \E v, w \in 1..Len(vectors) :
          /\ IsZero(vectors[v]) /\ result[v] = 0
          /\ result[w] > 0

\* the first assignment step has run and put every vector in cluster 0
FirstAssignmentAllZero ==
    /\ vectors # <<>>
    /\ round = 1
    /\ new_labels = Zeros(Len(vectors))

\* C27: kmeans compares the first round's assignment with an initial all-zero
\* label vector: when the first assignment puts every vector in cluster 0,
\* kmeans returns the all-zero labelling at once, with no update or reseeding
\* step (the centers are the sampled ones and the generator is where the
\* sampling left it), even when k > 1 and the other clusters are empty.
C27_AllZeroFirstRoundReturns ==
    FirstAssignmentAllZero =>
        /\ pc \in {"km_return", "ac_finish", "done", "exported"}
        /\ ~updated
        /\ labels = Zeros(Len(vectors))
        /\ centers = InitialCenters(vectors, k, rng_at_call).centers
        /\ rng = InitialCenters(vectors, k, rng_at_call).rng
        /\ pc # "km_return" => result = Zeros(Len(vectors))

\* kmeans returned all zeros after one round with k > 1 for vectors of two
\* different directions, the clusters above 0 being empty
C27_Witness ==
    /\ KMDone
    /\ FirstAssignmentAllZero
    /\ k > 1
    /\ result = Zeros(Len(vectors))
    /\ \E v, w \in 1..Len(vectors) :
          /\ ~IsZero(vectors[v]) /\ ~IsZero(vectors[w])
          /\ CosineDistance(vectors[v], vectors[w]) = Scale

\* kmeans is running, or has ended, on a non-empty list
KmeansOnVectors == pc # "idle" /\ vectors # <<>>

\* no labels returned: kmeans is before its first assignment step or has
\* raised
NoLabelsReturned ==
    \/ pc = "error"
    \/ pc = "km_assign" /\ round = 0

\* for k >= 1 kmeans does not raise and returns one label per vector;
\* assign_clusters hands its cluster_count to kmeans as it is
ValidKReturns ==
    /\ k_arg >= 1 =>
          /\ pc # "error"
          /\ pc \in {"ac_finish", "done"} => Len(result) = Len(vectors)
    /\ caller = "assign_clusters" => k_arg = cluster_count

\* C28 as stated: for a non-empty list and k >= 1 kmeans returns labels
\* without raising, while k <= 0 is not clamped and ends in an error with no
\* labels returned; assign_clusters passes cluster_count on unvalidated.
C28_NonPositiveKRaises ==
    KmeansOnVectors =>
        /\ ValidKReturns
        /\ k_arg <= 0 => k = k_arg /\ NoLabelsReturned

\* C28, amended: k <= 0 ends in an error when max_iter >= 1 (the default is
\* 50); with max_iter <= 0 the loop body never runs and k = 0 returns the
\* initial all-zero labels.
C28_NonPositiveKRaisesInLoop ==
    KmeansOnVectors =>
        /\ ValidKReturns
        /\ k_arg <= 0 => k = k_arg
        /\ (k_arg <= 0 /\ max_iter >= 1) => NoLabelsReturned
        /\ (k_arg = 0 /\ max_iter <= 0 /\ pc = "done") =>
              result = Zeros(Len(vectors))

\* assign_clusters raised out of kmeans for cluster_count = 0 and two or more
\* eligible regions
C28_Witness ==
    /\ pc = "error"
    /\ caller = "assign_clusters"
    /\ cluster_count = 0
    /\ k = 0
    /\ round = 1
    /\ Len(vectors) >= 2

AcqCacheOnly == acq.pc # "none" /\ acq.cache_only

AcqExited == acq.pc = "exit"

InSeq(x, seq) == \E i \in 1..Len(seq) : seq[i] = x

\* in cache-only mode no request is issued, and a missing region-list or
\* taxonomy cache ends the run with exit code 1
CacheOnlyNoRequest ==
    AcqCacheOnly =>
        /\ acq.requests = 0
        /\ (AcqExited /\ (~acq.counties_file \/ ~acq.taxonomy_file)) =>
              acq.exit_code = 1

\* the regions whose species-list cache is missing
MissingSpecies ==
    {RegionCodes[i] : i \in 1..NumRegions} \ acq.species_files

\* C29 as stated: in cache-only mode the run never issues an API request,
\* whatever the refresh flag and the cache contents; a missing region-list or
\* taxonomy cache ends the run with exit code 1; a region whose species-list
\* cache is missing is left out of the results and of the combined cache.
C29_CacheOnly ==
    /\ CacheOnlyNoRequest
    /\ (AcqCacheOnly /\ AcqExited /\ acq.exit_code = 0) =>
          \A code \in MissingSpecies :
              /\ ~InSeq(code, acq.results)
              /\ ~InSeq(code, acq.combined_file.items)

\* the run took its regions from the combined cache file
FromCombined ==
    acq.use_combined /\ ~acq.refresh /\ acq.combined_file.exists
    /\ acq.combined_file.items # <<>> /\ acq.combined = <<>>

\* C29, amended: the same, the last part for a run that goes through the
\* regions one by one (no combined cache is used): a region whose species-list
\* cache is missing is skipped, and is absent from the results, from the
\* combined list of the run and from the combined cache file if the run
\* writes it (it writes it when at least one region was taken).
C29_CacheOnlyPerRegion ==
    /\ CacheOnlyNoRequest
    /\ (AcqCacheOnly /\ AcqExited /\ acq.exit_code = 0 /\ ~FromCombined) =>
          \A code \in MissingSpecies :
              /\ ~InSeq(code, acq.results)
              /\ ~InSeq(code, acq.combined)
              /\ acq.combined # <<>> =>
                    ~InSeq(code, acq.combined_file.items)

\* a cache-only run ended with exit code 0 having taken one region from its
\* species cache and skipped another whose cache is missing
C29_Witness ==
    /\ AcqCacheOnly /\ AcqExited /\ acq.exit_code = 0
    /\ ~FromCombined
    /\ acq.requests = 0
    /\ MissingSpecies # {}
    /\ Len(acq.results) >= 1
    /\ acq.combined_file = [exists |-> TRUE, items |-> acq.results]

\* the file holding the complete payload of the call
NewFile == [exists |-> TRUE, items |-> sc.payload]

\* C30: save_cache replaces the cache file atomically: the payload is written
\* in full to <path>.tmp and only then renamed over <path>; at every step, and
\* when the write fails part-way, the file at <path> is what it was before
\* the call (absent, or the complete previous content) or the complete new
\* payload, never a part of it; after the return it is the new payload and
\* <path>.tmp is gone.
C30_AtomicReplace ==
    sc.pc # "none" =>
        /\ sc.path = sc.before \/ sc.path = NewFile
        /\ sc.pc \in {"call", "writing", "closed", "raised"} =>
              sc.path = sc.before
        /\ sc.pc = "closed" => sc.tmp = NewFile
        /\ sc.pc = "returned" => sc.path = NewFile /\ sc.tmp = Absent

\* a write failed part-way over an existing cache file of other content: the
\* temporary file holds a proper, non-empty part of the payload
C30_Witness ==
    /\ sc.pc = "raised"
    /\ sc.before.exists /\ sc.before.items # <<>>
    /\ sc.before # NewFile
    /\ sc.tmp.exists
    /\ Len(sc.tmp.items) >= 1
    /\ Len(sc.tmp.items) < Len(sc.payload)
    /\ sc.tmp.items # sc.before.items
=============================================================================
